---- MODULE Spec2Model ----
(***************************************************************************)
(* Model of the authorization core of the IT access request assistant:     *)
(* the rule engine (validateAccessRequest), the per-requester RequestState *)
(* machine (requestState.service / stateTransition.service), the approval  *)
(* ledger (approval.service) and the approval event composer               *)
(* (approvalEvent.service), driven by the controller's handlers.           *)
(*                                                                         *)
(* JavaScript `undefined` is the string "undefined"; an unset ISO          *)
(* timestamp is 0 and a set one is the value of the logical clock `now`   *)
(* when the handler read the time; an unset access link is <<>>.          *)
(***************************************************************************)
EXTENDS Integers, Sequences, FiniteSets, TLC

U == "undefined"

\* ------------------------------------------------------------------------
\* Bounds of the model
\* ------------------------------------------------------------------------
\* Largest number of AccessRequest records the ledger holds.
MaxRequests == 2
\* Largest number of calls that edit a RequestState in a run: chat messages,
\* handleRecovery and handleRejection calls.
MaxCalls == 4
\* Largest number of successful processManagerDecisionManually calls.
MaxManualDecisions == 2
\* Largest number of EscalationRequest records.
MaxEscalations == 2

\* ------------------------------------------------------------------------
\* State
\* ------------------------------------------------------------------------
VARIABLES
  requestStates,   \* requestState.service: userId -> RequestState (a Map)
  accessRequests,  \* approval.service: the ledger, request id -> AccessRequest
  clientState,     \* the RequestState useRequestState holds while opened for each user
  selectedUserId,  \* the user whose chat session the front end runs
  eventLog,        \* the ApprovalEvents returned by the decisions, in order
  now,             \* the clock read by new Date(); it advances when a ledger
                   \* record or an escalation is created and at each decision
  callCount,       \* number of chat messages, recoveries, rejections and manual
                   \* escalation decisions so far
  evaluation,      \* input and output of a direct call of the rule engine
  escalationRequests,  \* escalation.service: escalation id -> EscalationRequest
  escalationTimers,    \* ids whose setTimeout(processManagerDecision) has not fired
  agentResponse        \* input and output of a direct call of a response generator

vars == <<requestStates, accessRequests, clientState, selectedUserId, eventLog,
          now, callCount, evaluation, escalationRequests, escalationTimers,
          agentResponse>>

\* ------------------------------------------------------------------------
\* Static data tables
\* ------------------------------------------------------------------------
Roles == {"Intern", "Developer", "Manager", "IT Administrator"}
Systems == {"Email", "GitHub", "Jira"}
AccessLevels == {"read-only", "read-write", "admin", "view", "comment",
                 "create-edit", "default"}

\* users.json
users == [u \in {"intern-001", "manager-001", "manager-002", "admin-001"} |->
            CASE u = "intern-001"  -> [name |-> "Alice",   role |-> "Intern"]
              [] u = "manager-001" -> [name |-> "Bob",     role |-> "Manager"]
              [] u = "manager-002" -> [name |-> "Sarah",   role |-> "Manager"]
              [] u = "admin-001"   -> [name |-> "Michael", role |-> "IT Administrator"]]

UserIds == DOMAIN users

\* projects.json
projects == [p \in {"project-1", "project-2"} |->
               CASE p = "project-1" -> [name |-> "Project Alpha", managerId |-> "manager-001"]
                 [] p = "project-2" -> [name |-> "Project Beta",  managerId |-> "manager-002"]]

ProjectIds == DOMAIN projects
ProjectNames == {projects[p].name : p \in ProjectIds}

\* projectAssignments.json
projectAssignments == [u \in UserIds |->
               CASE u = "intern-001"  -> {"project-2"}
                 [] u = "manager-001" -> {"project-1"}
                 [] u = "manager-002" -> {"project-2"}
                 [] u = "admin-001"   -> {"project-1", "project-2"}]

\* A SystemRules object with every capability flag absent.
NoFlags == [default |-> FALSE, readOnly |-> FALSE, readWrite |-> FALSE,
            admin |-> FALSE, view |-> FALSE, comment |-> FALSE,
            createEdit |-> FALSE, requiresApproval |-> FALSE, accessLevel |-> U]

\* accessRules.json: per role, the SystemRules of each system and the
\* role-level flags.
accessRules == [r \in Roles |->
  CASE r = "Intern" ->
         [Email  |-> [NoFlags EXCEPT !.default = TRUE],
          GitHub |-> [NoFlags EXCEPT !.readOnly = TRUE, !.requiresApproval = TRUE],
          Jira   |-> [NoFlags EXCEPT !.view = TRUE, !.comment = TRUE,
                                     !.requiresApproval = TRUE],
          adminAccessRequiresApproval |-> FALSE,
          canApprove |-> FALSE, finalApprovalAuthority |-> FALSE]
    [] r = "Developer" ->
         [Email  |-> [NoFlags EXCEPT !.default = TRUE],
          GitHub |-> [NoFlags EXCEPT !.readOnly = TRUE, !.readWrite = TRUE],
          Jira   |-> [NoFlags EXCEPT !.view = TRUE, !.comment = TRUE, !.createEdit = TRUE],
          adminAccessRequiresApproval |-> TRUE,
          canApprove |-> FALSE, finalApprovalAuthority |-> FALSE]
    [] r = "Manager" ->
         [Email  |-> [NoFlags EXCEPT !.default = TRUE],
          GitHub |-> [NoFlags EXCEPT !.readOnly = TRUE, !.readWrite = TRUE],
          Jira   |-> [NoFlags EXCEPT !.view = TRUE, !.comment = TRUE, !.createEdit = TRUE,
                                     !.admin = TRUE],
          adminAccessRequiresApproval |-> FALSE,
          canApprove |-> TRUE, finalApprovalAuthority |-> FALSE]
    [] r = "IT Administrator" ->
         [Email  |-> [NoFlags EXCEPT !.default = TRUE, !.readOnly = TRUE,
                                     !.readWrite = TRUE, !.admin = TRUE],
          GitHub |-> [NoFlags EXCEPT !.readOnly = TRUE, !.readWrite = TRUE, !.admin = TRUE],
          Jira   |-> [NoFlags EXCEPT !.view = TRUE, !.comment = TRUE, !.createEdit = TRUE,
                                     !.admin = TRUE],
          adminAccessRequiresApproval |-> FALSE,
          canApprove |-> TRUE, finalApprovalAuthority |-> TRUE]]

\* ------------------------------------------------------------------------
\* Rule engine (ruleEngine.service)
\* ------------------------------------------------------------------------
\* users.find(u => u.id === userId)?.role
RoleOfUser(userId) == IF userId \in UserIds THEN users[userId].role ELSE U

validateProjectAccess(userId, projectId) ==
  IF RoleOfUser(userId) = "IT Administrator"
  THEN [isAssigned |-> TRUE, managerId |-> U]
  ELSE LET userProjects == IF userId \in DOMAIN projectAssignments
                           THEN projectAssignments[userId] ELSE {}
       IN IF projectId \notin userProjects
          THEN [isAssigned |-> FALSE,
                managerId |-> IF projectId \in ProjectIds
                              THEN projects[projectId].managerId ELSE U]
          ELSE [isAssigned |-> TRUE, managerId |-> U]

\* A ValidationResult; rejectionReason is the kind of the reason text.
Decision(isValid, requiresApproval, allowed, reason, downgraded) ==
  [isValid |-> isValid, requiresApproval |-> requiresApproval,
   requiresEscalation |-> FALSE, escalationTo |-> U,
   allowedAccessLevel |-> allowed, rejectionReason |-> reason,
   downgradeReason |-> downgraded]

findDowngradedAccessLevel(systemRules, requestedLevel, system, userRole) ==
  IF system = "Email" /\ userRole = "Intern" /\ systemRules.default
     /\ requestedLevel \in {"read-only", "read-write", "admin"}
  THEN "default"
  ELSE IF requestedLevel = "read-write" /\ systemRules.readOnly THEN "read-only"
  ELSE IF requestedLevel = "create-edit" /\ systemRules.comment THEN "comment"
  ELSE IF requestedLevel = "create-edit" /\ systemRules.view THEN "view"
  ELSE IF requestedLevel = "comment" /\ systemRules.view THEN "view"
  ELSE U

\* accessLevelMap[requestedAccessLevel](systemRules)
checkAccess(level, r) ==
  CASE level = "read-only"   -> r.readOnly
    [] level = "read-write"  -> r.readWrite \/ r.readOnly
    [] level = "admin"       -> r.admin
    [] level = "view"        -> r.view
    [] level = "comment"     -> r.comment \/ r.view
    [] level = "create-edit" -> r.createEdit \/ r.comment
    [] level = "default"     -> r.default
    [] OTHER                 -> FALSE

\* roleAndLevelChecks in which an admin request that no admin rule grants
\* falls through to the capability check and the downgrade instead of being
\* denied.
roleAndLevelChecksAdminFallsThrough(userRole, system, requestedAccessLevel) ==
  IF userRole \notin DOMAIN accessRules
  THEN Decision(FALSE, FALSE, U, "unknown-role", FALSE)
  ELSE IF system \notin Systems
  THEN Decision(FALSE, FALSE, U, "system-not-defined", FALSE)
  ELSE
    LET roleRules == accessRules[userRole]
        systemRules == roleRules[system]
    IN IF requestedAccessLevel = "admin" /\ userRole = "IT Administrator"
       THEN Decision(TRUE, FALSE, "admin", U, FALSE)
       ELSE IF requestedAccessLevel = "admin" /\ userRole = "Manager" /\ system = "Jira"
       THEN Decision(TRUE, FALSE, "admin", U, FALSE)
       ELSE IF requestedAccessLevel = "admin" /\ userRole = "Developer"
               /\ roleRules.adminAccessRequiresApproval
       THEN Decision(TRUE, TRUE, "admin", U, FALSE)
       ELSE IF requestedAccessLevel \notin AccessLevels
       THEN Decision(FALSE, FALSE, U, "invalid-level", FALSE)
       ELSE IF ~checkAccess(requestedAccessLevel, systemRules)
       THEN LET downgradedLevel ==
                  findDowngradedAccessLevel(systemRules, requestedAccessLevel,
                                            system, userRole)
            IN IF downgradedLevel # U
               THEN Decision(TRUE, systemRules.requiresApproval, downgradedLevel,
                             U, TRUE)
               ELSE Decision(FALSE, FALSE, U, "level-not-granted", FALSE)
       ELSE Decision(TRUE, systemRules.requiresApproval,
                     IF systemRules.accessLevel # U THEN systemRules.accessLevel
                     ELSE requestedAccessLevel,
                     U, FALSE)

\* Steps 2 and 3 of validateAccessRequest: the role, admin and capability
\* checks that follow the project assignment check.
roleAndLevelChecks(userRole, system, requestedAccessLevel) ==
  IF userRole \notin DOMAIN accessRules
  THEN Decision(FALSE, FALSE, U, "unknown-role", FALSE)
  ELSE IF system \notin Systems
  THEN Decision(FALSE, FALSE, U, "system-not-defined", FALSE)
  ELSE
    LET roleRules == accessRules[userRole]
        systemRules == roleRules[system]
    IN IF requestedAccessLevel = "admin"
       THEN IF userRole = "IT Administrator"
            THEN Decision(TRUE, FALSE, "admin", U, FALSE)
            ELSE IF userRole = "Manager" /\ system = "Jira"
            THEN Decision(TRUE, FALSE, "admin", U, FALSE)
            ELSE IF userRole = "Developer" /\ roleRules.adminAccessRequiresApproval
            THEN Decision(TRUE, TRUE, "admin", U, FALSE)
            ELSE Decision(FALSE, FALSE, U, "no-admin", FALSE)
       ELSE IF requestedAccessLevel \notin AccessLevels
       THEN Decision(FALSE, FALSE, U, "invalid-level", FALSE)
       ELSE IF ~checkAccess(requestedAccessLevel, systemRules)
       THEN LET downgradedLevel ==
                  findDowngradedAccessLevel(systemRules, requestedAccessLevel,
                                            system, userRole)
            IN IF downgradedLevel # U
               THEN Decision(TRUE, systemRules.requiresApproval, downgradedLevel,
                             U, TRUE)
               ELSE Decision(FALSE, FALSE, U, "level-not-granted", FALSE)
       ELSE Decision(TRUE, systemRules.requiresApproval,
                     IF systemRules.accessLevel # U THEN systemRules.accessLevel
                     ELSE requestedAccessLevel,
                     U, FALSE)

\* validateAccessRequest with the project assignment check placed after the
\* role and level checks instead of before them.
validateAccessRequestRoleFirst(userId, userRole, system, requestedAccessLevel, projectId) ==
  IF ~roleAndLevelChecks(userRole, system, requestedAccessLevel).isValid
  THEN roleAndLevelChecks(userRole, system, requestedAccessLevel)
  ELSE IF projectId # U /\ ~validateProjectAccess(userId, projectId).isAssigned
  THEN [isValid |-> FALSE, requiresApproval |-> FALSE,
        requiresEscalation |-> TRUE,
        escalationTo |-> validateProjectAccess(userId, projectId).managerId,
        allowedAccessLevel |-> U, rejectionReason |-> "not-assigned",
        downgradeReason |-> FALSE]
  ELSE roleAndLevelChecks(userRole, system, requestedAccessLevel)

\* validateAccessRequest with a hidden dependence on the ledger: a requester
\* who already holds an approved request for the system is waved through
\* without approval.
validateAccessRequestRemembering(userId, userRole, system, requestedAccessLevel, projectId) ==
  IF projectId # U /\ ~validateProjectAccess(userId, projectId).isAssigned
  THEN [isValid |-> FALSE, requiresApproval |-> FALSE,
        requiresEscalation |-> TRUE,
        escalationTo |-> validateProjectAccess(userId, projectId).managerId,
        allowedAccessLevel |-> U, rejectionReason |-> "not-assigned",
        downgradeReason |-> FALSE]
  ELSE IF \E id \in DOMAIN accessRequests :
            /\ accessRequests[id].userId = userId
            /\ accessRequests[id].system = system
            /\ accessRequests[id].status = "approved"
  THEN [roleAndLevelChecks(userRole, system, requestedAccessLevel)
          EXCEPT !.requiresApproval = FALSE]
  ELSE roleAndLevelChecks(userRole, system, requestedAccessLevel)

validateAccessRequest(userId, userRole, system, requestedAccessLevel, projectId) ==
  IF projectId # U /\ ~validateProjectAccess(userId, projectId).isAssigned
  THEN [isValid |-> FALSE, requiresApproval |-> FALSE,
        requiresEscalation |-> TRUE,
        escalationTo |-> validateProjectAccess(userId, projectId).managerId,
        allowedAccessLevel |-> U, rejectionReason |-> "not-assigned",
        downgradeReason |-> FALSE]
  ELSE roleAndLevelChecks(userRole, system, requestedAccessLevel)

canApproveRequests(role) ==
  role \in DOMAIN accessRules
  /\ (accessRules[role].canApprove \/ accessRules[role].finalApprovalAuthority)

hasFinalApprovalAuthority(role) ==
  role \in DOMAIN accessRules /\ accessRules[role].finalApprovalAuthority

\* ------------------------------------------------------------------------
\* Request state service (requestState.service)
\* ------------------------------------------------------------------------
createInitialRequestState(userId, role) ==
  [user |-> userId, role |-> role, system |-> U, accessLevel |-> U,
   project |-> U, targetEmployeeId |-> U, status |-> "DRAFT",
   agentConfidence |-> "MEDIUM", missingFields |-> <<"system", "accessLevel">>,
   accessLink |-> <<>>, rejectionReason |-> U, approverId |-> U,
   approverRole |-> U, approvedAt |-> 0, rejectedAt |-> 0]

\* validateRequestState(state).missingFields
calculateMissingFields(state) ==
  (IF state.system = U THEN <<"system">> ELSE <<>>)
  \o (IF state.system \in {"Email", "Jira"} /\ state.role = "Intern"
         /\ state.targetEmployeeId = U
      THEN <<"targetEmployeeId">> ELSE <<>>)
  \o (IF state.system = "GitHub" /\ state.project = U THEN <<"project">> ELSE <<>>)
  \o (IF state.accessLevel = U THEN <<"accessLevel">> ELSE <<>>)

calculateConfidence(state) ==
  IF state.accessLevel = U THEN "MEDIUM"
  ELSE IF state.accessLevel = "read-only" THEN "HIGH"
  ELSE IF state.accessLevel = "admin" /\ state.role = "Intern" THEN "LOW"
  ELSE "MEDIUM"

\* A Partial<RequestState> with no key present.
NoUpdates == [system |-> U, accessLevel |-> U, project |-> U,
              targetEmployeeId |-> U, status |-> U, accessLink |-> <<>>,
              approvedAt |-> 0, approverId |-> U, approverRole |-> U]

\* { ...currentState, ...updates }
Spread(currentState, updates) ==
  [currentState EXCEPT
     !.system = IF updates.system # U THEN updates.system ELSE @,
     !.accessLevel = IF updates.accessLevel # U THEN updates.accessLevel ELSE @,
     !.project = IF updates.project # U THEN updates.project ELSE @,
     !.targetEmployeeId = IF updates.targetEmployeeId # U
                          THEN updates.targetEmployeeId ELSE @,
     !.status = IF updates.status # U THEN updates.status ELSE @,
     !.accessLink = IF updates.accessLink # <<>> THEN updates.accessLink ELSE @,
     !.approvedAt = IF updates.approvedAt # 0 THEN updates.approvedAt ELSE @,
     !.approverId = IF updates.approverId # U THEN updates.approverId ELSE @,
     !.approverRole = IF updates.approverRole # U THEN updates.approverRole ELSE @]

\* ClearDependentFields that clears the access level only.
ClearDependentFieldsLevelOnly(newState, currentState, updates) ==
  IF updates.system # U /\ updates.system # currentState.system
  THEN [newState EXCEPT !.accessLevel = U]
  ELSE newState

\* Clear dependent fields when system changes.
ClearDependentFields(newState, currentState, updates) ==
  IF updates.system # U /\ updates.system # currentState.system
  THEN [newState EXCEPT
          !.project = IF updates.system # "GitHub" THEN U ELSE @,
          !.accessLevel = U]
  ELSE newState

\* RecalculateDerived that recomputes the confidence but keeps the missingFields
\* list the spread copied from the current state.
RecalculateConfidenceOnly(newState) ==
  [newState EXCEPT !.agentConfidence = calculateConfidence(newState)]

\* Recalculate derived fields.
RecalculateDerived(newState) ==
  [newState EXCEPT !.missingFields = calculateMissingFields(newState),
                   !.agentConfidence = calculateConfidence(newState)]

\* updateRequestState without the move from DRAFT to IN_PROGRESS.
updateRequestStateKeepingDraft(currentState, updates) ==
  RecalculateDerived(ClearDependentFields(Spread(currentState, updates),
                                          currentState, updates))

\* The state updateRequestState returns and saves under newState.user.
updateRequestState(currentState, updates) ==
  LET merged == ClearDependentFields(Spread(currentState, updates),
                                     currentState, updates)
      derived == RecalculateDerived(merged)
  IN IF derived.status = "DRAFT" /\ derived.system # U
     THEN [derived EXCEPT !.status = "IN_PROGRESS"]
     ELSE derived

shouldAutoSubmit(state) ==
  /\ calculateMissingFields(state) = <<>>
  /\ state.system # U
  /\ state.accessLevel # U
  /\ (state.system # "GitHub" \/ state.project # U)
  /\ (state.system \notin {"Email", "Jira"} \/ state.role # "Intern"
      \/ state.targetEmployeeId # U)

validateStateTransition(fromStatus, toStatus) ==
  CASE fromStatus = "DRAFT" -> toStatus \in {"IN_PROGRESS", "DRAFT"}
    [] fromStatus = "IN_PROGRESS" ->
         toStatus \in {"IN_PROGRESS", "AWAITING_APPROVAL", "DRAFT"}
    [] fromStatus = "AWAITING_APPROVAL" -> toStatus \in {"APPROVED", "REJECTED", "DRAFT"}
    [] fromStatus = "APPROVED" -> toStatus \in {"DRAFT"}
    [] fromStatus = "REJECTED" -> toStatus \in {"DRAFT"}
    [] OTHER -> FALSE

\* requestStates.set(state.user, state)
SetState(states, state) ==
  [k \in DOMAIN states \cup {state.user} |->
     IF k = state.user THEN state ELSE states[k]]

\* resetRequestState that only moves the stored state back to DRAFT, keeping
\* its selections and outcome fields.
resetRequestStateStatusOnly(states, userId, role) ==
  IF userId \in DOMAIN states
  THEN SetState(states, [states[userId] EXCEPT !.status = "DRAFT"])
  ELSE SetState(states, createInitialRequestState(userId, role))

\* The store after resetRequestState; the state it returns is the one stored
\* under userId.
resetRequestState(states, userId, role) ==
  SetState(states, createInitialRequestState(userId, role))

\* updateRequestStateFromApproval without the clearing of the rejection fields.
updateRequestStateFromApprovalKeepingRejection(states, userId, accessLink, approverId, approverRole, approvedAt) ==
  IF userId \notin DOMAIN states THEN states
  ELSE IF states[userId].status # "AWAITING_APPROVAL" THEN states
  ELSE [states EXCEPT ![userId] =
          [@ EXCEPT !.status = "APPROVED", !.accessLink = accessLink,
                    !.approverId = approverId, !.approverRole = approverRole,
                    !.approvedAt = approvedAt]]

\* The stored RequestState after updateRequestStateFromApproval.
updateRequestStateFromApproval(states, userId, accessLink, approverId, approverRole, approvedAt) ==
  IF userId \notin DOMAIN states THEN states
  ELSE IF states[userId].status # "AWAITING_APPROVAL" THEN states
  ELSE [states EXCEPT ![userId] =
          [@ EXCEPT !.status = "APPROVED", !.accessLink = accessLink,
                    !.approverId = approverId, !.approverRole = approverRole,
                    !.approvedAt = approvedAt, !.rejectionReason = U,
                    !.rejectedAt = 0]]

\* The stored RequestState after updateRequestStateFromRejection.
updateRequestStateFromRejection(states, userId, reason, approverId, approverRole, rejectedAt) ==
  IF userId \notin DOMAIN states THEN states
  ELSE IF states[userId].status # "AWAITING_APPROVAL" THEN states
  ELSE [states EXCEPT ![userId] =
          [@ EXCEPT !.status = "REJECTED", !.rejectionReason = reason,
                    !.approverId = approverId, !.approverRole = approverRole,
                    !.rejectedAt = rejectedAt, !.accessLink = <<>>,
                    !.approvedAt = 0]]

\* ------------------------------------------------------------------------
\* Approval event service (approvalEvent.service)
\* ------------------------------------------------------------------------
generateAccessLink(system, accessLevel, project, userId, targetEmployeeId) ==
  CASE system = "GitHub" ->
         IF project # U
         THEN <<"https://github.com/company/",
                IF project = "Project Alpha" THEN "project-alpha"
                ELSE IF project = "Project Beta" THEN "project-beta" ELSE "main">>
         ELSE <<"https://github.com/company">>
    [] system = "Jira" ->
         IF project # U
         THEN <<"https://company.atlassian.net/projects/",
                IF project = "Project Alpha" THEN "ALPHA"
                ELSE IF project = "Project Beta" THEN "BETA" ELSE "MAIN">>
         ELSE IF targetEmployeeId # U
         THEN <<"https://company.atlassian.net/people/", targetEmployeeId>>
         ELSE <<"https://company.atlassian.net">>
    [] system = "Email" ->
         <<"mailto:", IF targetEmployeeId # U THEN targetEmployeeId ELSE userId,
           "@company.com">>
    [] OTHER -> <<"https://company.com/access/", system>>

\* No ApprovalEvent.
NoEvent == [type |-> U, requestId |-> 0, managerId |-> U, internId |-> U,
            managerMessage |-> U, internMessage |-> U,
            projectOwnerManagerId |-> U, projectOwnerMessage |-> U,
            originalResourceOwnerId |-> U, originalResourceOwnerMessage |-> U,
            approverRole |-> U, approvedAt |-> 0, rejectedAt |-> 0,
            accessLink |-> <<>>, rejectionReason |-> U]

\* request.employeeOwnerId && request.targetEmployeeId
IsEmployeeOwnedTemplate(request) ==
  request.employeeOwnerId # U /\ request.targetEmployeeId # U

\* A message is modelled by the name of its template.
emitApprovalEvent(request, approverId, approverRole, accessLink, approvedAt) ==
  LET override == approverRole = "IT Administrator"
                  /\ request.assignedApproverId # U
                  /\ request.assignedApproverId # approverId
      ownerMessage ==
        IF ~override THEN U
        ELSE IF request.project # U THEN "it-admin-approved-project"
        ELSE IF request.targetEmployeeId # U /\ request.targetEmployeeId \in UserIds
        THEN "it-admin-approved-account"
        ELSE "it-admin-approved-system"
  IN [NoEvent EXCEPT
        !.type = "approval", !.requestId = request.id, !.managerId = approverId,
        !.internId = request.userId,
        !.managerMessage = IF IsEmployeeOwnedTemplate(request)
                           THEN "approved-your-account" ELSE "approved-project",
        !.internMessage = IF IsEmployeeOwnedTemplate(request)
                          THEN "your-request-account-approved"
                          ELSE "your-request-project-approved",
        !.projectOwnerManagerId = IF approverRole = "IT Administrator"
                                  THEN request.projectOwnerManagerId ELSE U,
        !.projectOwnerMessage = IF override /\ request.project # U
                                THEN ownerMessage ELSE U,
        !.originalResourceOwnerId = IF override THEN request.assignedApproverId ELSE U,
        !.originalResourceOwnerMessage = ownerMessage,
        !.approverRole = approverRole, !.approvedAt = approvedAt,
        !.accessLink = accessLink]

emitRejectionEvent(request, approverId, approverRole, reason, rejectedAt) ==
  [NoEvent EXCEPT
     !.type = "rejection", !.requestId = request.id, !.managerId = approverId,
     !.internId = request.userId,
     !.managerMessage = IF IsEmployeeOwnedTemplate(request)
                        THEN "rejected-your-account" ELSE "rejected-project",
     !.internMessage = IF IsEmployeeOwnedTemplate(request)
                       THEN "your-request-account-rejected"
                       ELSE "your-request-project-rejected",
     !.approverRole = approverRole, !.rejectedAt = rejectedAt,
     !.rejectionReason = reason]

\* ------------------------------------------------------------------------
\* Approval service (approval.service)
\* ------------------------------------------------------------------------
\* The record createAccessRequest stores; its id is its position in the ledger.
createAccessRequest(reqs, request, nowIso) ==
  Append(reqs, [request EXCEPT !.id = Len(reqs) + 1, !.createdAt = nowIso,
                               !.updatedAt = nowIso])

\* approveRequest without the check that the request is still pending.
approveRequestNoStatusCheck(reqs, requestId, approverRole, approverId, nowIso) ==
  IF requestId \notin DOMAIN reqs
  THEN [outcome |-> "null", requests |-> reqs, event |-> NoEvent]
  ELSE
    LET request == reqs[requestId]
        isEmployeeOwnedRequest == request.employeeOwnerId # U
                                  /\ request.employeeOwnerId = approverId
    IN IF ~canApproveRequests(approverRole) /\ ~isEmployeeOwnedRequest
       THEN [outcome |-> "error-permission", requests |-> reqs, event |-> NoEvent]
       ELSE
         LET accessLink == generateAccessLink(request.system, request.accessLevel,
                                              request.project, request.userId,
                                              request.targetEmployeeId)
             updated == [request EXCEPT
                           !.status = "approved", !.approvalBy = approverRole,
                           !.approverId = approverId, !.approverRole = approverRole,
                           !.approvedAt = nowIso, !.updatedAt = nowIso]
         IN [outcome |-> "ok",
             requests |-> [reqs EXCEPT ![requestId] = updated],
             event |-> emitApprovalEvent(updated, approverId, approverRole,
                                         accessLink, nowIso)]

\* approveRequest without the permission check on the actor.
approveRequestNoPermissionCheck(reqs, requestId, approverRole, approverId, nowIso) ==
  IF requestId \notin DOMAIN reqs
  THEN [outcome |-> "null", requests |-> reqs, event |-> NoEvent]
  ELSE
    LET request == reqs[requestId]
    IN IF request.status # "pending"
       THEN [outcome |-> "error-not-pending", requests |-> reqs, event |-> NoEvent]
       ELSE
         LET accessLink == generateAccessLink(request.system, request.accessLevel,
                                              request.project, request.userId,
                                              request.targetEmployeeId)
             updated == [request EXCEPT
                           !.status = "approved", !.approvalBy = approverRole,
                           !.approverId = approverId, !.approverRole = approverRole,
                           !.approvedAt = nowIso, !.updatedAt = nowIso]
         IN [outcome |-> "ok",
             requests |-> [reqs EXCEPT ![requestId] = updated],
             event |-> emitApprovalEvent(updated, approverId, approverRole,
                                         accessLink, nowIso)]

\* approveRequest that also records the actor as the assigned approver.
approveRequestReassigning(reqs, requestId, approverRole, approverId, nowIso) ==
  IF requestId \notin DOMAIN reqs
  THEN [outcome |-> "null", requests |-> reqs, event |-> NoEvent]
  ELSE
    LET request == reqs[requestId]
        isEmployeeOwnedRequest == request.employeeOwnerId # U
                                  /\ request.employeeOwnerId = approverId
    IN IF ~canApproveRequests(approverRole) /\ ~isEmployeeOwnedRequest
       THEN [outcome |-> "error-permission", requests |-> reqs, event |-> NoEvent]
       ELSE IF request.status # "pending"
       THEN [outcome |-> "error-not-pending", requests |-> reqs, event |-> NoEvent]
       ELSE
         LET accessLink == generateAccessLink(request.system, request.accessLevel,
                                              request.project, request.userId,
                                              request.targetEmployeeId)
             updated == [request EXCEPT
                           !.status = "approved", !.approvalBy = approverRole,
                           !.approverId = approverId, !.approverRole = approverRole,
                           !.approvedAt = nowIso, !.updatedAt = nowIso,
                           !.assignedApproverId = approverId]
         IN [outcome |-> "ok",
             requests |-> [reqs EXCEPT ![requestId] = updated],
             event |-> emitApprovalEvent(updated, approverId, approverRole,
                                         accessLink, nowIso)]

\* The result of approveRequest: "null" (not found), an error that was
\* thrown, or "ok" with the updated ledger and the event.
approveRequest(reqs, requestId, approverRole, approverId, nowIso) ==
  IF requestId \notin DOMAIN reqs
  THEN [outcome |-> "null", requests |-> reqs, event |-> NoEvent]
  ELSE
    LET request == reqs[requestId]
        isEmployeeOwnedRequest == request.employeeOwnerId # U
                                  /\ request.employeeOwnerId = approverId
    IN IF ~canApproveRequests(approverRole) /\ ~isEmployeeOwnedRequest
       THEN [outcome |-> "error-permission", requests |-> reqs, event |-> NoEvent]
       ELSE IF request.status # "pending"
       THEN [outcome |-> "error-not-pending", requests |-> reqs, event |-> NoEvent]
       ELSE
         LET accessLink == generateAccessLink(request.system, request.accessLevel,
                                              request.project, request.userId,
                                              request.targetEmployeeId)
             updated == [request EXCEPT
                           !.status = "approved", !.approvalBy = approverRole,
                           !.approverId = approverId, !.approverRole = approverRole,
                           !.approvedAt = nowIso, !.updatedAt = nowIso]
         IN [outcome |-> "ok",
             requests |-> [reqs EXCEPT ![requestId] = updated],
             event |-> emitApprovalEvent(updated, approverId, approverRole,
                                         accessLink, nowIso)]

\* reason.length
ReasonLength(reason) ==
  CASE reason = "" -> 0
    [] reason = "Access level too high for intern role" -> 37
    [] reason = "reason-of-121-chars" -> 121
    [] OTHER -> 1

\* rejectRequest without the permission check on the actor.
rejectRequestNoPermissionCheck(reqs, requestId, approverRole, reason, approverId, nowIso) ==
  IF requestId \notin DOMAIN reqs
  THEN [outcome |-> "null", requests |-> reqs, event |-> NoEvent]
  ELSE
    LET request == reqs[requestId]
    IN IF ReasonLength(reason) > 120
       THEN [outcome |-> "error-reason", requests |-> reqs, event |-> NoEvent]
       ELSE IF request.status # "pending"
       THEN [outcome |-> "error-not-pending", requests |-> reqs, event |-> NoEvent]
       ELSE
         LET updated == [request EXCEPT
                           !.status = "rejected", !.approvalBy = approverRole,
                           !.rejectionReason = reason, !.approverId = approverId,
                           !.approverRole = approverRole, !.rejectedAt = nowIso,
                           !.updatedAt = nowIso]
         IN [outcome |-> "ok",
             requests |-> [reqs EXCEPT ![requestId] = updated],
             event |-> emitRejectionEvent(updated, approverId, approverRole,
                                          reason, nowIso)]

\* rejectRequest without the check that the request is still pending.
rejectRequestNoStatusCheck(reqs, requestId, approverRole, reason, approverId, nowIso) ==
  IF requestId \notin DOMAIN reqs
  THEN [outcome |-> "null", requests |-> reqs, event |-> NoEvent]
  ELSE
    LET request == reqs[requestId]
        isEmployeeOwnedRequest == request.employeeOwnerId # U
                                  /\ request.employeeOwnerId = approverId
    IN IF ReasonLength(reason) > 120
       THEN [outcome |-> "error-reason", requests |-> reqs, event |-> NoEvent]
       ELSE IF ~canApproveRequests(approverRole) /\ ~isEmployeeOwnedRequest
       THEN [outcome |-> "error-permission", requests |-> reqs, event |-> NoEvent]
       ELSE
         LET updated == [request EXCEPT
                           !.status = "rejected", !.approvalBy = approverRole,
                           !.rejectionReason = reason, !.approverId = approverId,
                           !.approverRole = approverRole, !.rejectedAt = nowIso,
                           !.updatedAt = nowIso]
         IN [outcome |-> "ok",
             requests |-> [reqs EXCEPT ![requestId] = updated],
             event |-> emitRejectionEvent(updated, approverId, approverRole,
                                          reason, nowIso)]

rejectRequest(reqs, requestId, approverRole, reason, approverId, nowIso) ==
  IF requestId \notin DOMAIN reqs
  THEN [outcome |-> "null", requests |-> reqs, event |-> NoEvent]
  ELSE
    LET request == reqs[requestId]
        isEmployeeOwnedRequest == request.employeeOwnerId # U
                                  /\ request.employeeOwnerId = approverId
    IN IF ReasonLength(reason) > 120
       THEN [outcome |-> "error-reason", requests |-> reqs, event |-> NoEvent]
       ELSE IF ~canApproveRequests(approverRole) /\ ~isEmployeeOwnedRequest
       THEN [outcome |-> "error-permission", requests |-> reqs, event |-> NoEvent]
       ELSE IF request.status # "pending"
       THEN [outcome |-> "error-not-pending", requests |-> reqs, event |-> NoEvent]
       ELSE
         LET updated == [request EXCEPT
                           !.status = "rejected", !.approvalBy = approverRole,
                           !.rejectionReason = reason, !.approverId = approverId,
                           !.approverRole = approverRole, !.rejectedAt = nowIso,
                           !.updatedAt = nowIso]
         IN [outcome |-> "ok",
             requests |-> [reqs EXCEPT ![requestId] = updated],
             event |-> emitRejectionEvent(updated, approverId, approverRole,
                                          reason, nowIso)]

\* The filter with the visibility decided by the viewer's role alone: every
\* viewer whose role can approve sees every pending request.
NeedsApprovalFromAnyApprover(request, managerId, managerRole) ==
  IF managerId = "admin-001" \/ managerRole = "IT Administrator" THEN TRUE
  ELSE IF canApproveRequests(managerRole) THEN TRUE
  ELSE IF request.assignedApproverId = managerId THEN TRUE
  ELSE FALSE

\* The filter of getPendingApprovalsForManager on one request.
NeedsApprovalFrom(request, managerId, managerRole) ==
  IF managerId = "admin-001" \/ managerRole = "IT Administrator" THEN TRUE
  ELSE IF request.assignedApproverId = managerId THEN TRUE
  ELSE FALSE

getPendingApprovalsForManager(reqs, managerId, managerRole) ==
  IF ~canApproveRequests(managerRole) /\ managerRole # "Developer"
     /\ managerRole # "Intern"
  THEN <<>>
  ELSE LET isPending(req) == req.status = "pending" /\ req.requiresApproval
           wanted(req) == NeedsApprovalFrom(req, managerId, managerRole)
       IN SelectSeq(SelectSeq(reqs, isPending), wanted)

\* ------------------------------------------------------------------------
\* State transition service (stateTransition.service)
\* ------------------------------------------------------------------------
\* state.project === 'Project Alpha' ? 'project-1' : ... ? 'project-2' : undefined
ProjectIdOf(project) ==
  IF project = "Project Alpha" THEN "project-1"
  ELSE IF project = "Project Beta" THEN "project-2" ELSE U

\* The rule engine's decision on a RequestState's selections.
ValidationOf(state) ==
  validateAccessRequest(state.user, state.role, state.system, state.accessLevel,
                        ProjectIdOf(state.project))

\* employeeOwnerId of the request being created.
EmployeeOwnerOf(state) ==
  IF state.system \in {"Email", "Jira"} /\ state.targetEmployeeId # U
  THEN state.targetEmployeeId ELSE U

\* projectOwnerManagerId of the request being created.
ProjectOwnerOf(state) ==
  IF ProjectIdOf(state.project) # U
  THEN projects[ProjectIdOf(state.project)].managerId ELSE U

\* finalRequiresApproval taken from the rule engine alone.
FinalRequiresApprovalFromRules(state, validationResult) ==
  validationResult.requiresApproval

\* finalRequiresApproval
FinalRequiresApproval(state, validationResult) ==
  IF EmployeeOwnerOf(state) # U THEN TRUE ELSE validationResult.requiresApproval

\* The object passed to createAccessRequest with status 'pending' whatever
\* finalRequiresApproval is.
NewAccessRequestAlwaysPending(state, validationResult) ==
  LET projectOwnerManagerId == ProjectOwnerOf(state)
      employeeOwnerId == EmployeeOwnerOf(state)
      finalRequiresApproval == FinalRequiresApproval(state, validationResult)
  IN [id |-> 0, userId |-> state.user,
      userName |-> IF state.user \in UserIds THEN users[state.user].name
                   ELSE state.user,
      userRole |-> state.role, system |-> state.system,
      accessLevel |-> state.accessLevel, project |-> state.project,
      projectId |-> ProjectIdOf(state.project),
      projectOwnerManagerId |-> projectOwnerManagerId,
      targetEmployeeId |-> state.targetEmployeeId,
      employeeOwnerId |-> employeeOwnerId,
      assignedApproverId |-> IF projectOwnerManagerId # U THEN projectOwnerManagerId
                             ELSE IF employeeOwnerId # U THEN employeeOwnerId ELSE U,
      fallbackApproverId |-> IF finalRequiresApproval THEN "admin-001" ELSE U,
      status |-> "pending",
      requiresApproval |-> finalRequiresApproval,
      approvalBy |-> U, approverId |-> U, approverRole |-> U,
      approvedAt |-> 0, rejectedAt |-> 0, rejectionReason |-> U,
      createdAt |-> 0, updatedAt |-> 0]

\* The object transitionToAwaitingApproval passes to createAccessRequest.
NewAccessRequest(state, validationResult) ==
  LET projectOwnerManagerId == ProjectOwnerOf(state)
      employeeOwnerId == EmployeeOwnerOf(state)
      finalRequiresApproval == FinalRequiresApproval(state, validationResult)
  IN [id |-> 0, userId |-> state.user,
      userName |-> IF state.user \in UserIds THEN users[state.user].name
                   ELSE state.user,
      userRole |-> state.role, system |-> state.system,
      accessLevel |-> state.accessLevel, project |-> state.project,
      projectId |-> ProjectIdOf(state.project),
      projectOwnerManagerId |-> projectOwnerManagerId,
      targetEmployeeId |-> state.targetEmployeeId,
      employeeOwnerId |-> employeeOwnerId,
      assignedApproverId |-> IF projectOwnerManagerId # U THEN projectOwnerManagerId
                             ELSE IF employeeOwnerId # U THEN employeeOwnerId ELSE U,
      fallbackApproverId |-> IF finalRequiresApproval THEN "admin-001" ELSE U,
      status |-> IF finalRequiresApproval THEN "pending" ELSE "approved",
      requiresApproval |-> finalRequiresApproval,
      approvalBy |-> U, approverId |-> U, approverRole |-> U,
      approvedAt |-> 0, rejectedAt |-> 0, rejectionReason |-> U,
      createdAt |-> 0, updatedAt |-> 0]

\* transitionToAwaitingApproval without the check of the current status.
transitionToAwaitingApprovalAnyStatus(state, reqs, nowIso) ==
  IF ~shouldAutoSubmit(state)
  THEN [threw |-> "missing-fields", state |-> state, requests |-> reqs]
  ELSE
    LET validationResult == ValidationOf(state)
    IN IF ~validationResult.isValid
       THEN [threw |-> "validation-failed", state |-> state, requests |-> reqs]
       ELSE
         LET created == createAccessRequest(
                          reqs, NewAccessRequest(state, validationResult), nowIso)
         IN IF ~FinalRequiresApproval(state, validationResult)
            THEN [threw |-> U,
                  state |-> updateRequestState(state,
                     [NoUpdates EXCEPT
                        !.status = "APPROVED",
                        !.accessLink = generateAccessLink(
                            state.system, state.accessLevel, state.project,
                            state.user, state.targetEmployeeId),
                        !.approvedAt = nowIso, !.approverId = state.user,
                        !.approverRole = state.role]),
                  requests |-> created]
            ELSE [threw |-> U,
                  state |-> updateRequestState(state,
                     [NoUpdates EXCEPT !.status = "AWAITING_APPROVAL"]),
                  requests |-> created]

\* The result of transitionToAwaitingApproval: threw, or the new state (saved
\* by updateRequestState) and the ledger with the created request.
transitionToAwaitingApproval(state, reqs, nowIso) ==
  IF state.status # "IN_PROGRESS"
  THEN [threw |-> "invalid-transition", state |-> state, requests |-> reqs]
  ELSE IF ~shouldAutoSubmit(state)
  THEN [threw |-> "missing-fields", state |-> state, requests |-> reqs]
  ELSE
    LET validationResult == ValidationOf(state)
    IN IF ~validationResult.isValid
       THEN [threw |-> "validation-failed", state |-> state, requests |-> reqs]
       ELSE
         LET created == createAccessRequest(
                          reqs, NewAccessRequest(state, validationResult), nowIso)
         IN IF ~FinalRequiresApproval(state, validationResult)
            THEN [threw |-> U,
                  state |-> updateRequestState(state,
                     [NoUpdates EXCEPT
                        !.status = "APPROVED",
                        !.accessLink = generateAccessLink(
                            state.system, state.accessLevel, state.project,
                            state.user, state.targetEmployeeId),
                        !.approvedAt = nowIso, !.approverId = state.user,
                        !.approverRole = state.role]),
                  requests |-> created]
            ELSE [threw |-> U,
                  state |-> updateRequestState(state,
                     [NoUpdates EXCEPT !.status = "AWAITING_APPROVAL"]),
                  requests |-> created]

\* processStateUpdate turning a failed auto-submission into a REJECTED state.
processStateUpdateRejecting(state, updates, reqs, nowIso) ==
  LET updatedState == updateRequestState(state, updates)
  IN IF updatedState.status = "IN_PROGRESS" /\ shouldAutoSubmit(updatedState)
     THEN LET t == transitionToAwaitingApproval(updatedState, reqs, nowIso)
          IN IF t.threw # U
             THEN [state |-> [updatedState EXCEPT !.status = "REJECTED"],
                   requests |-> reqs, threw |-> t.threw]
             ELSE [state |-> t.state, requests |-> t.requests, threw |-> U]
     ELSE [state |-> updatedState, requests |-> reqs, threw |-> U]

\* The state processStateUpdate returns (and leaves saved), with the ledger.
processStateUpdate(state, updates, reqs, nowIso) ==
  LET updatedState == updateRequestState(state, updates)
  IN IF updatedState.status = "IN_PROGRESS" /\ shouldAutoSubmit(updatedState)
     THEN LET t == transitionToAwaitingApproval(updatedState, reqs, nowIso)
          IN IF t.threw # U
             THEN [state |-> updatedState, requests |-> reqs, threw |-> t.threw]
             ELSE [state |-> t.state, requests |-> t.requests, threw |-> U]
     ELSE [state |-> updatedState, requests |-> reqs, threw |-> U]

\* The state handleRejection returns and saves, or the state unchanged when it throws.
handleRejection(state, reason) ==
  IF ~validateStateTransition(state.status, "REJECTED")
  THEN [threw |-> "invalid-transition", state |-> state]
  ELSE [threw |-> U,
        state |-> updateRequestState(state, [NoUpdates EXCEPT !.status = "REJECTED"])]

\* The state handleRecovery returns and saves.
handleRecovery(state, correction) ==
  updateRequestState(state,
    [NoUpdates EXCEPT !.status = "IN_PROGRESS",
                      !.accessLevel = correction.accessLevel,
                      !.system = correction.system])

\* ------------------------------------------------------------------------
\* Escalation service (escalation.service)
\* ------------------------------------------------------------------------
\* The store after createEscalationRequest; the id of the new record is its
\* position in the store. The caller also starts the 2 s timer.
createEscalationRequest(escs, userId, projectId, system, accessLevel, escalationTo, nowIso) ==
  Append(escs, [id |-> Len(escs) + 1, userId |-> userId, projectId |-> projectId,
                system |-> system, accessLevel |-> accessLevel,
                status |-> "pending", escalationTo |-> escalationTo,
                justification |-> U, createdAt |-> nowIso, updatedAt |-> nowIso])

\* justifications.approved and justifications.rejected
Justifications ==
  [approved |-> {"Access approved for project collaboration.",
                 "User needs access to complete assigned tasks.",
                 "Approved based on project requirements.",
                 "Access granted for cross-team collaboration."},
   rejected |-> {"User not currently assigned to this project.",
                 "Access not required for current project scope.",
                 "Request does not align with project needs.",
                 "Insufficient justification for access."}]

\* justification.length
JustificationLength(justification) ==
  CASE justification = "" -> 0
    [] justification = "Access approved for project collaboration." -> 42
    [] justification = "User needs access to complete assigned tasks." -> 45
    [] justification = "Approved based on project requirements." -> 39
    [] justification = "Access granted for cross-team collaboration." -> 44
    [] justification = "User not currently assigned to this project." -> 44
    [] justification = "Access not required for current project scope." -> 46
    [] justification = "Request does not align with project needs." -> 42
    [] justification = "Insufficient justification for access." -> 38
    [] justification = "Approved by the project manager" -> 31
    [] justification = "justification-of-121-chars" -> 121
    [] OTHER -> 1

\* processManagerDecision that records the justification and leaves the status.
processManagerDecisionKeepingPending(escs, requestId, managerId, approved, justification, nowIso) ==
  IF requestId \notin DOMAIN escs THEN escs
  ELSE IF escs[requestId].escalationTo # managerId THEN escs
  ELSE [escs EXCEPT ![requestId] =
          [@ EXCEPT !.justification = justification, !.updatedAt = nowIso]]

\* The store after processManagerDecision; approved is Math.random() > 0.3 and
\* justification the entry Math.random() picks from the list of the outcome.
processManagerDecision(escs, requestId, managerId, approved, justification, nowIso) ==
  IF requestId \notin DOMAIN escs THEN escs
  ELSE IF escs[requestId].escalationTo # managerId THEN escs
  ELSE [escs EXCEPT ![requestId] =
          [@ EXCEPT !.status = IF approved THEN "approved" ELSE "rejected",
                    !.justification = justification,
                    !.updatedAt = nowIso]]

\* The result of processManagerDecisionManually: "null", a thrown error, or
\* "ok" with the updated store.
processManagerDecisionManually(escs, requestId, approved, justification, nowIso) ==
  IF requestId \notin DOMAIN escs
  THEN [outcome |-> "null", escalations |-> escs]
  ELSE IF JustificationLength(justification) > 120
  THEN [outcome |-> "error-justification", escalations |-> escs]
  ELSE [outcome |-> "ok",
        escalations |->
          [escs EXCEPT ![requestId] =
             [@ EXCEPT !.status = IF approved THEN "approved" ELSE "rejected",
                       !.justification = justification,
                       !.updatedAt = nowIso]]]

\* escalationRequests.values().filter(pending for managerId)
getPendingEscalations(escs, managerId) ==
  LET wanted(req) == req.escalationTo = managerId /\ req.status = "pending"
  IN SelectSeq(escs, wanted)

\* ------------------------------------------------------------------------
\* Agent responses (aiAgent.service); each operator is the message field of
\* the AIResponse the function returns
\* ------------------------------------------------------------------------
\* truncateMessage that returns the text as it is.
truncateMessageUncut(message) == message

\* message.length <= 120 ? message : message.substring(0, 117) + '...'
truncateMessage(message) ==
  IF Len(message) <= 120 THEN message ELSE SubSeq(message, 1, 117) \o "..."

\* The URL string of an access link.
LinkText(link) ==
  IF Len(link) = 0 THEN ""
  ELSE IF Len(link) = 1 THEN link[1]
  ELSE IF Len(link) = 2 THEN link[1] \o link[2]
  ELSE link[1] \o link[2] \o link[3]

\* The rejectionReason text of a ValidationResult.
RejectionReasonText(kind, userRole, system, requestedAccessLevel) ==
  IF kind = "not-assigned"
  THEN "You are not assigned to this project. Access requires escalation to the project manager."
  ELSE IF kind = "unknown-role" THEN "Unknown role: " \o userRole
  ELSE IF kind = "system-not-defined"
  THEN "Access to " \o system \o " is not defined for role " \o userRole
  ELSE IF kind = "no-admin"
  THEN "Role " \o userRole \o " cannot be granted admin access to " \o system
  ELSE IF kind = "invalid-level" THEN "Invalid access level: " \o requestedAccessLevel
  ELSE "Role " \o userRole \o " cannot be granted " \o requestedAccessLevel
       \o " access to " \o system

\* The downgradeReason text of a ValidationResult.
DowngradeReasonText(userRole, system, requestedAccessLevel, downgradedLevel) ==
  "Requested " \o requestedAccessLevel \o " but role " \o userRole
  \o " is limited to " \o downgradedLevel \o " for " \o system

generateClarificationQuestion(missingFields) ==
  IF Len(missingFields) > 0
  THEN LET firstField == missingFields[1]
           question ==
             IF firstField = "system" THEN "Which system? (Email, GitHub, or Jira)"
             ELSE IF firstField = "accessLevel"
             THEN "What access level? (read-only, read-write, or admin)"
             ELSE IF firstField = "project" THEN "Which project? (Alpha or Beta)"
             ELSE "Please provide more information."
       IN truncateMessage(question)
  ELSE truncateMessage("Please provide more details.")

generateEscalationMessage(system, accessLevel, projectName, managerId) ==
  LET managerName == IF managerId \in UserIds THEN users[managerId].name
                     ELSE "project manager"
  IN truncateMessage("Not assigned to " \o projectName \o ". Escalate to "
                     \o managerName \o "?")

\* approver.name with its suffix, or the default text.
ApproverInfo(assignedApproverId, targetEmployeeId, project) ==
  IF assignedApproverId # U /\ assignedApproverId \in UserIds
  THEN users[assignedApproverId].name
       \o (IF targetEmployeeId # U THEN " (Account Owner)"
           ELSE IF project # U THEN " (Project Owner)" ELSE "")
  ELSE "Manager or IT Admin"

explainDecision(validationResult, userRole, system, requestedAccessLevel, projectName, assignedApproverId, targetEmployeeId) ==
  IF ~validationResult.isValid
  THEN IF validationResult.requiresEscalation /\ validationResult.escalationTo # U
       THEN generateEscalationMessage(system, requestedAccessLevel,
                                      IF projectName # U THEN projectName
                                      ELSE "the project",
                                      validationResult.escalationTo)
       ELSE truncateMessage(
              IF validationResult.rejectionReason # U
              THEN RejectionReasonText(validationResult.rejectionReason, userRole,
                                       system, requestedAccessLevel)
              ELSE IF system = "Email" /\ requestedAccessLevel = "admin"
              THEN "Admin access not available for Email. Choose read-only, read-write, or default."
              ELSE IF system = "Jira" /\ userRole = "Intern"
                      /\ requestedAccessLevel = "admin"
              THEN "Admin access requires approval. Choose viewer, contributor, or request escalation."
              ELSE "Cannot approve: " \o requestedAccessLevel \o " access to "
                   \o system \o " not permitted for " \o userRole \o ".")
  ELSE IF validationResult.downgradeReason
  THEN truncateMessage("Adjusted: "
                       \o DowngradeReasonText(userRole, system, requestedAccessLevel,
                                              validationResult.allowedAccessLevel)
                       \o " Access: " \o validationResult.allowedAccessLevel)
  ELSE IF validationResult.requiresApproval
  THEN truncateMessage("Request submitted. Awaiting approval from "
                       \o ApproverInfo(assignedApproverId, targetEmployeeId, projectName)
                       \o ".")
  ELSE truncateMessage("Request approved. Access granted immediately.")

generateQuestionForMissingField(field, state) ==
  LET question ==
        IF field = "system" THEN "Which system? (Email, GitHub, or Jira)"
        ELSE IF field = "targetEmployeeId" /\ state.system = "Email"
        THEN "Whose email access do you need?"
        ELSE IF field = "targetEmployeeId" /\ state.system = "Jira"
        THEN "Whose Jira account do you need access to?"
        ELSE IF field = "project" /\ state.system = "GitHub"
        THEN "Which project or repository? (Alpha or Beta)"
        ELSE IF field = "project" /\ state.system = "Jira"
        THEN "Which Jira project? (Alpha or Beta)"
        ELSE IF field = "accessLevel" /\ state.system \in {"Email", "GitHub"}
        THEN "What access level? (read-only, read-write, or admin)"
        ELSE IF field = "accessLevel" /\ state.system = "Jira"
        THEN "What role? (viewer, contributor, or admin)"
        ELSE "Please provide more information."
  IN IF Len(question) > 120 THEN SubSeq(question, 1, 117) \o "..." ELSE question

generateValidationError(missingField, state) ==
  truncateMessage(
    IF missingField = "system"
    THEN "System selection required. Choose Email, GitHub, or Jira."
    ELSE IF missingField = "targetEmployeeId" /\ state.system = "Email"
    THEN "Email owner required. Whose email access do you need?"
    ELSE IF missingField = "targetEmployeeId" /\ state.system = "Jira"
    THEN "Account owner required. Whose Jira account do you need access to?"
    ELSE IF missingField = "project" /\ state.system = "GitHub"
    THEN "GitHub requires a project. Which project or repository? (Alpha or Beta)"
    ELSE IF missingField = "project" /\ state.system = "Jira"
    THEN "Jira project required. Which project? (Alpha or Beta)"
    ELSE IF missingField = "accessLevel" /\ state.system \in {"Email", "GitHub"}
    THEN "Access level required. Choose read-only, read-write, or admin."
    ELSE IF missingField = "accessLevel" /\ state.system = "Jira"
    THEN "Role required. Choose viewer, contributor, or admin."
    ELSE "Missing required field. Please provide more information.")

\* The optional requiresApproval is <<>> when it is not passed.
generateStateAwareResponse(state, updates, requiresApproval, assignedApproverId) ==
  IF state.status = "APPROVED"
  THEN IF state.accessLink # <<>>
       THEN truncateMessage("Request approved. Access granted. Link: "
                            \o LinkText(state.accessLink))
       ELSE truncateMessage("Request approved. Access granted immediately.")
  ELSE IF state.status = "REJECTED"
  THEN truncateMessage("What would you like to access next? (Email, GitHub, or Jira)")
  ELSE IF state.agentConfidence = "LOW" /\ state.role = "Intern"
          /\ state.accessLevel = "admin"
  THEN LET message == "Admin requires approval. Choose read-only or read-write?"
       IN IF Len(message) > 120 THEN SubSeq(message, 1, 117) \o "..." ELSE message
  ELSE IF Len(state.missingFields) = 0
  THEN IF requiresApproval = <<FALSE>>
       THEN truncateMessage("Request approved. Access granted immediately.")
       ELSE LET system == IF state.system # U THEN state.system ELSE "system"
                level == IF state.accessLevel # U THEN state.accessLevel ELSE "access"
                message == "Request submitted: " \o level \o " access to " \o system
                           \o ". Awaiting approval from "
                           \o ApproverInfo(assignedApproverId, state.targetEmployeeId,
                                           state.project)
                           \o "."
            IN IF Len(message) > 120 THEN SubSeq(message, 1, 117) \o "..." ELSE message
  ELSE generateQuestionForMissingField(state.missingFields[1], state)

\* ------------------------------------------------------------------------
\* The texts of the event messages (approvalEvent.service)
\* ------------------------------------------------------------------------
\* targetEmployee?.name || 'employee'
TargetEmployeeName(request) ==
  IF request.targetEmployeeId \in UserIds THEN users[request.targetEmployeeId].name
  ELSE "employee"

\* `${request.system} ${request.accessLevel} access${request.project ? ` to ${request.project}` : ''}`
ProjectAccessText(request) ==
  request.system \o " " \o request.accessLevel \o " access"
  \o (IF request.project # U THEN " to " \o request.project ELSE "")

\* managerMessage, internMessage and originalResourceOwnerMessage ("" when
\* undefined) of emitApprovalEvent.
approvalEventTexts(request, approverId, approverRole, accessLink) ==
  [managerMessage |->
     IF IsEmployeeOwnedTemplate(request)
     THEN "Approved request from " \o request.userName \o " (" \o request.userRole
          \o ") for " \o request.system \o " " \o request.accessLevel
          \o " access to your account"
     ELSE "Approved request from " \o request.userName \o " (" \o request.userRole
          \o ") for " \o ProjectAccessText(request),
   internMessage |->
     IF IsEmployeeOwnedTemplate(request)
     THEN "Your request for " \o request.system \o " " \o request.accessLevel
          \o " access to " \o TargetEmployeeName(request)
          \o "'s account has been approved. Access link: " \o accessLink
     ELSE "Your request for " \o ProjectAccessText(request)
          \o " has been approved. Access link: " \o accessLink,
   originalResourceOwnerMessage |->
     IF ~(approverRole = "IT Administrator" /\ request.assignedApproverId # U
          /\ request.assignedApproverId # approverId)
     THEN ""
     ELSE IF request.project # U
     THEN "IT Admin approved access for " \o request.userName \o " to "
          \o request.project
     ELSE IF request.targetEmployeeId # U /\ request.targetEmployeeId \in UserIds
     THEN "IT Admin approved access for " \o request.userName \o " to "
          \o users[request.targetEmployeeId].name \o "'s " \o request.system
          \o " account"
     ELSE "IT Admin approved access for " \o request.userName \o " to "
          \o request.system]

\* managerMessage and internMessage of emitRejectionEvent.
rejectionEventTexts(request, reason) ==
  [managerMessage |->
     IF IsEmployeeOwnedTemplate(request)
     THEN "Rejected request from " \o request.userName \o " (" \o request.userRole
          \o ") for " \o request.system \o " " \o request.accessLevel
          \o " access to your account. Reason: " \o reason
     ELSE "Rejected request from " \o request.userName \o " (" \o request.userRole
          \o ") for " \o ProjectAccessText(request) \o ". Reason: " \o reason,
   internMessage |->
     IF IsEmployeeOwnedTemplate(request)
     THEN "Your request for " \o request.system \o " " \o request.accessLevel
          \o " access to " \o TargetEmployeeName(request)
          \o "'s account has been rejected. Reason: " \o reason
     ELSE "Your request for " \o ProjectAccessText(request)
          \o " has been rejected. Reason: " \o reason,
   originalResourceOwnerMessage |-> ""]

\* The texts of the messages of an event emitted for a request.
EventTexts(event, request) ==
  IF event.type = "approval"
  THEN approvalEventTexts(request, event.managerId, event.approverRole,
                          LinkText(event.accessLink))
  ELSE rejectionEventTexts(request, event.rejectionReason)

\* ------------------------------------------------------------------------
\* Initial state
\* ------------------------------------------------------------------------
\* No call of a response generator.
NoResponse == [fn |-> U, args |-> <<>>, called |-> FALSE, message |-> ""]

NoEvaluation == [userId |-> U, role |-> U, system |-> U, level |-> U,
                 projectId |-> U, called |-> FALSE,
                 output |-> Decision(FALSE, FALSE, U, U, FALSE)]

\* The users a chat session is opened for (Dashboard's initialUserId).
Requesters == UserIds

Init ==
  /\ requestStates = <<>>
  /\ accessRequests = <<>>
  /\ clientState = <<>>
  /\ selectedUserId \in Requesters
  /\ eventLog = <<>>
  /\ now = 1
  /\ escalationRequests = <<>>
  /\ escalationTimers = {}
  /\ callCount = 0
  /\ agentResponse = NoResponse
  /\ evaluation = NoEvaluation

\* ------------------------------------------------------------------------
\* Inputs
\* ------------------------------------------------------------------------
\* A ParsedIntent.
Intent(system, accessLevel, project, targetEmployeeId) ==
  [system |-> system, accessLevel |-> accessLevel, project |-> project,
   targetEmployeeId |-> targetEmployeeId]

\* The ParsedIntent values parseIntent extracts from the messages considered.
Intents ==
  { Intent(U, "admin", "Project Alpha", U),
    Intent("GitHub", U, "Project Beta", U),
    Intent("Email", U, U, U),
    Intent(U, U, U, "manager-002"),
    Intent("Jira", U, U, "intern-001"),
    Intent(U, "read-only", U, U),
    Intent(U, "admin", U, U) }

\* Rejection reasons typed into the approval modal ("" is no reason).
Reasons == {"", "Access level too high for intern role", "reason-of-121-chars"}

\* Corrections passed to handleRecovery.
Corrections == { [accessLevel |-> "read-only", system |-> U],
                 [accessLevel |-> U, system |-> "GitHub"] }

\* ------------------------------------------------------------------------
\* Controller (accessRequest.controller) and the operations it exposes
\* ------------------------------------------------------------------------
\* The front end sends the RequestState it holds as currentState.
CurrentStateOf(userId) ==
  IF userId \in DOMAIN clientState THEN <<clientState[userId]>> ELSE <<>>

\* setState(newState) of the hook while it is opened for userId.
SetClientState(held, userId, state) ==
  [k \in DOMAIN held \cup {userId} |-> IF k = userId THEN state ELSE held[k]]

\* let state = currentState ? currentState : getRequestState(userId);
\* if (!state) state = initializeRequestState(userId, role)
StateToUpdate(userId, currentState) ==
  IF currentState # <<>> THEN currentState[1]
  ELSE IF userId \in DOMAIN requestStates THEN requestStates[userId]
  ELSE createInitialRequestState(userId, users[userId].role)

\* The store after the handler's optional initializeRequestState.
StatesAfterLoad(userId, currentState) ==
  IF currentState # <<>> \/ userId \in DOMAIN requestStates
  THEN requestStates
  ELSE SetState(requestStates, createInitialRequestState(userId, users[userId].role))

\* The Partial<RequestState> the handler builds from the parsed intent.
UpdatesOf(intent) ==
  [NoUpdates EXCEPT !.system = intent.system, !.accessLevel = intent.accessLevel,
                    !.project = intent.project,
                    !.targetEmployeeId = intent.targetEmployeeId]

\* POST /api/request-state/update
handleRequestStateUpdate(userId, intent) ==
  LET currentState == CurrentStateOf(userId)
      loaded == StateToUpdate(userId, currentState)
      states0 == StatesAfterLoad(userId, currentState)
      terminal == loaded.status \in {"APPROVED", "REJECTED"}
  IN
  /\ callCount < MaxCalls
  /\ callCount' = callCount + 1
  /\ IF terminal /\ intent.system = U
     THEN \* ask what to access next; nothing is saved
          /\ requestStates' = states0
          /\ clientState' = SetClientState(clientState, userId, loaded)
          /\ UNCHANGED <<accessRequests, now>>
     ELSE LET states1 == IF terminal
                         THEN resetRequestState(states0, userId, users[userId].role)
                         ELSE states0
              state == IF terminal THEN states1[userId] ELSE loaded
              out == processStateUpdate(state, UpdatesOf(intent), accessRequests, now)
          IN /\ Len(out.requests) <= MaxRequests
             /\ requestStates' = SetState(states1, out.state)
             /\ accessRequests' = out.requests
             /\ clientState' = SetClientState(clientState, userId, out.state)
             /\ now' = IF out.requests # accessRequests THEN now + 1 ELSE now
  /\ UNCHANGED <<selectedUserId, eventLog, evaluation, agentResponse,
                    escalationRequests, escalationTimers>>

\* GET /api/request-state/:userId
getRequestStateForUser(userId) ==
  /\ requestStates' = StatesAfterLoad(userId, <<>>)
  /\ clientState' = SetClientState(clientState, userId, StateToUpdate(userId, <<>>))
  /\ UNCHANGED <<accessRequests, selectedUserId, eventLog, now, callCount,
                    evaluation, agentResponse,
                    escalationRequests, escalationTimers>>

\* POST /api/request-state/:userId/reset
resetRequestStateForUser(userId) ==
  LET states1 == resetRequestState(requestStates, userId, users[userId].role)
  IN /\ requestStates' = states1
     /\ clientState' = SetClientState(clientState, userId, states1[userId])
     /\ UNCHANGED <<accessRequests, selectedUserId, eventLog, now, callCount,
                    evaluation, agentResponse,
                    escalationRequests, escalationTimers>>

\* POST /api/approvals/approve
approveAccessRequest(requestId, approverId) ==
  LET approverRole == users[approverId].role
      r == approveRequest(accessRequests, requestId, approverRole, approverId, now)
  IN IF r.outcome = "ok"
     THEN /\ accessRequests' = r.requests
          /\ requestStates' = updateRequestStateFromApproval(
                 requestStates, r.requests[requestId].userId, r.event.accessLink,
                 approverId, approverRole, r.event.approvedAt)
          /\ eventLog' = Append(eventLog, r.event)
          /\ now' = now + 1
          /\ UNCHANGED <<clientState, selectedUserId, callCount, evaluation, agentResponse,
                    escalationRequests, escalationTimers>>
     ELSE \* 404 or 400: an error is returned
          UNCHANGED vars

\* The input validation of rejectAccessRequest without the check that a
\* reason was given.
RejectInputErrorLengthOnly(reason) ==
  IF ReasonLength(reason) > 120 THEN "reason-too-long" ELSE U

\* The 400 responses of rejectAccessRequest's input validation.
RejectInputError(reason) ==
  IF reason = "" THEN "missing-fields"
  ELSE IF ReasonLength(reason) > 120 THEN "reason-too-long"
  ELSE U

\* POST /api/approvals/reject
rejectAccessRequest(requestId, approverId, reason) ==
  LET approverRole == users[approverId].role
      r == rejectRequest(accessRequests, requestId, approverRole, reason,
                         approverId, now)
  IN IF RejectInputError(reason) = U /\ r.outcome = "ok"
     THEN /\ accessRequests' = r.requests
          /\ requestStates' = updateRequestStateFromRejection(
                 requestStates, r.requests[requestId].userId, reason,
                 approverId, approverRole, r.event.rejectedAt)
          /\ eventLog' = Append(eventLog, r.event)
          /\ now' = now + 1
          /\ UNCHANGED <<clientState, selectedUserId, callCount, evaluation, agentResponse,
                    escalationRequests, escalationTimers>>
     ELSE \* 404 or 400: an error is returned
          UNCHANGED vars

\* stateTransition.service handleRecovery on the stored state of a requester
Recovery(userId, correction) ==
  /\ callCount < MaxCalls
  /\ userId \in DOMAIN requestStates
  /\ callCount' = callCount + 1
  /\ requestStates' = SetState(requestStates,
                               handleRecovery(requestStates[userId], correction))
  /\ UNCHANGED <<accessRequests, clientState, selectedUserId, eventLog, now,
                 evaluation, agentResponse,
                    escalationRequests, escalationTimers>>

\* stateTransition.service handleRejection on the stored state of a requester
Rejection(userId, reason) ==
  /\ callCount < MaxCalls
  /\ userId \in DOMAIN requestStates
  /\ callCount' = callCount + 1
  /\ requestStates' = SetState(requestStates,
                               handleRejection(requestStates[userId], reason).state)
  /\ UNCHANGED <<accessRequests, clientState, selectedUserId, eventLog, now,
                 evaluation, agentResponse,
                    escalationRequests, escalationTimers>>

Next ==
  \/ \E i \in Intents : handleRequestStateUpdate(selectedUserId, i)
  \/ getRequestStateForUser(selectedUserId)
  \/ resetRequestStateForUser(selectedUserId)
  \/ \E id \in DOMAIN accessRequests, a \in UserIds : approveAccessRequest(id, a)
  \/ \E id \in DOMAIN accessRequests, a \in UserIds, r \in Reasons :
       rejectAccessRequest(id, a, r)
  \/ \E c \in Corrections : Recovery(selectedUserId, c)
  \/ Rejection(selectedUserId, "no longer needed")

Spec == Init /\ [][Next]_vars

\* ------------------------------------------------------------------------
\* Switching the user of the dashboard
\* ------------------------------------------------------------------------
\* The users the dashboard's selector switches between.
SwitchUsers == {"intern-001", "manager-001"}

\* onUserChange: the hook is now opened for userId and keeps the RequestState
\* it holds until the response of its loadState arrives.
SwitchUser(userId) ==
  /\ userId # selectedUserId
  /\ selectedUserId' = userId
  /\ clientState' = IF selectedUserId \in DOMAIN clientState
                    THEN SetClientState(<<>>, userId, clientState[selectedUserId])
                    ELSE <<>>
  /\ UNCHANGED <<requestStates, accessRequests, eventLog, now, callCount,
                 evaluation, agentResponse, escalationRequests, escalationTimers>>

InitSwitch ==
  /\ requestStates = <<>>
  /\ accessRequests = <<>>
  /\ clientState = <<>>
  /\ selectedUserId = "intern-001"
  /\ eventLog = <<>>
  /\ now = 1
  /\ escalationRequests = <<>>
  /\ escalationTimers = {}
  /\ callCount = 0
  /\ agentResponse = NoResponse
  /\ evaluation = NoEvaluation

NextSwitch ==
  \/ \E i \in Intents : handleRequestStateUpdate(selectedUserId, i)
  \/ getRequestStateForUser(selectedUserId)
  \/ \E userId \in SwitchUsers : SwitchUser(userId)
  \/ \E id \in DOMAIN accessRequests : approveAccessRequest(id, "admin-001")
  \/ \E id \in DOMAIN accessRequests :
       rejectAccessRequest(id, "admin-001", "Access level too high for intern role")
  \/ resetRequestStateForUser(selectedUserId)

SpecSwitch == InitSwitch /\ [][NextSwitch]_vars

\* ------------------------------------------------------------------------
\* Messages that name several fields at once
\* ------------------------------------------------------------------------
\* The ParsedIntent values of messages that name any combination of a system,
\* a level, a project and an employee; with "jira" in the message parseIntent
\* extracts no "read-only".
UpdateIntents ==
  { Intent(system, accessLevel, project, targetEmployeeId) :
      system \in {U, "GitHub", "Email", "Jira"},
      accessLevel \in {U, "read-only", "admin"},
      project \in {U, "Project Alpha"},
      targetEmployeeId \in {U, "manager-002"} }
  \ { i \in [system : {"Jira"}, accessLevel : {"read-only"},
             project : {U, "Project Alpha"}, targetEmployeeId : {U, "manager-002"}] :
        TRUE }

\* A call of transitionToAwaitingApproval on the stored state of a requester;
\* when it throws nothing is saved.
Finalize(userId) ==
  /\ callCount < MaxCalls
  /\ userId \in DOMAIN requestStates
  /\ callCount' = callCount + 1
  /\ LET t == transitionToAwaitingApproval(requestStates[userId], accessRequests, now)
     IN /\ Len(t.requests) <= MaxRequests
        /\ requestStates' = IF t.threw = U THEN SetState(requestStates, t.state)
                            ELSE requestStates
        /\ accessRequests' = t.requests
        /\ now' = IF t.requests # accessRequests THEN now + 1 ELSE now
  /\ UNCHANGED <<clientState, selectedUserId, eventLog, evaluation, agentResponse,
                 escalationRequests, escalationTimers>>

NextUpdate ==
  \/ \E i \in UpdateIntents : handleRequestStateUpdate(selectedUserId, i)
  \/ resetRequestStateForUser(selectedUserId)
  \/ Finalize(selectedUserId)

SpecUpdate == Init /\ [][NextUpdate]_vars

\* ------------------------------------------------------------------------
\* Updates whose request body carries a RequestState of any UserRole
\* ------------------------------------------------------------------------
\* handleRequestStateUpdate takes currentState from the request body; its role
\* field is a UserRole and is never compared with the role in users.json.
InitRole ==
  /\ requestStates = <<>>
  /\ accessRequests = <<>>
  /\ selectedUserId \in Requesters
  /\ \E role \in Roles :
       clientState = SetClientState(<<>>, selectedUserId,
                                    createInitialRequestState(selectedUserId, role))
  /\ eventLog = <<>>
  /\ now = 1
  /\ escalationRequests = <<>>
  /\ escalationTimers = {}
  /\ callCount = 0
  /\ agentResponse = NoResponse
  /\ evaluation = NoEvaluation

NextRole ==
  \/ \E i \in UpdateIntents : handleRequestStateUpdate(selectedUserId, i)
  \/ resetRequestStateForUser(selectedUserId)

SpecRole == InitRole /\ [][NextRole]_vars

\* ------------------------------------------------------------------------
\* Direct calls of the rule engine
\* ------------------------------------------------------------------------
\* Arguments of validateAccessRequest, with one value outside each table.
EvalUserIds == UserIds \cup {"ghost-001"}
EvalRoles == Roles \cup {"Contractor"}
EvalSystems == Systems \cup {"Slack"}
EvalLevels == AccessLevels \cup {"superuser"}
EvalProjectIds == ProjectIds \cup {U, "project-9"}

InitEval ==
  /\ requestStates = <<>>
  /\ accessRequests = <<>>
  /\ clientState = <<>>
  /\ selectedUserId = "intern-001"
  /\ eventLog = <<>>
  /\ now = 1
  /\ escalationRequests = <<>>
  /\ escalationTimers = {}
  /\ callCount = 0
  /\ agentResponse = NoResponse
  /\ evaluation \in
       { [NoEvaluation EXCEPT !.userId = u, !.role = r, !.system = s,
                              !.level = l, !.projectId = p] :
           u \in EvalUserIds, r \in EvalRoles, s \in EvalSystems,
           l \in EvalLevels, p \in EvalProjectIds }

\* One call validateAccessRequest(userId, userRole, system, level, projectId).
Evaluate ==
  /\ ~evaluation.called
  /\ evaluation' =
       [evaluation EXCEPT
          !.called = TRUE,
          !.output = validateAccessRequest(evaluation.userId, evaluation.role,
                                           evaluation.system, evaluation.level,
                                           evaluation.projectId)]
  /\ UNCHANGED <<requestStates, accessRequests, clientState, selectedUserId,
                 eventLog, now, callCount,
                    escalationRequests, escalationTimers, agentResponse>>

NextEval == Evaluate

SpecEval == InitEval /\ [][NextEval]_vars

\* ------------------------------------------------------------------------
\* Direct calls of the response generators
\* ------------------------------------------------------------------------
\* A system name of 84 characters, as a state sent by a client may carry.
LongSystemName == "GitHub Enterprise Cloud organisation of the platform engineering group of the company"

MsgSystems == Systems \cup {LongSystemName}
MsgLevels == {"admin", "read-only", "create-edit"}
MsgFields == {"system", "accessLevel", "project", "targetEmployeeId", "reason"}
MsgStatuses == {"DRAFT", "IN_PROGRESS", "AWAITING_APPROVAL", "APPROVED", "REJECTED"}

\* RequestStates of an Intern and of a Manager with every combination of
\* selections, in every status (DRAFT exactly when no system is selected); an
\* APPROVED state carries the link generated for its selections.
MsgStates ==
  LET all ==
  { RecalculateDerived(
      [createInitialRequestState(u, users[u].role) EXCEPT
         !.system = system, !.accessLevel = level, !.project = project,
         !.targetEmployeeId = target, !.status = status,
         !.accessLink = IF status = "APPROVED"
                        THEN generateAccessLink(system, level, project, u, target)
                        ELSE <<>>]) :
      u \in {"intern-001", "manager-001"}, system \in MsgSystems \cup {U},
      level \in MsgLevels \cup {U}, project \in {U, "Project Alpha"},
      target \in {U, "manager-002"},
      status \in MsgStatuses }
  IN { s \in all : (s.status = "DRAFT") <=> (s.system = U) }

Call(fn, args) == [NoResponse EXCEPT !.fn = fn, !.args = args]

InitMsg ==
  /\ requestStates = <<>>
  /\ accessRequests = <<>>
  /\ clientState = <<>>
  /\ selectedUserId = "intern-001"
  /\ eventLog = <<>>
  /\ now = 1
  /\ escalationRequests = <<>>
  /\ escalationTimers = {}
  /\ callCount = 0
  /\ evaluation = NoEvaluation
  /\ agentResponse \in
       { Call("generateStateAwareResponse", <<s, ra, ap>>) :
           s \in MsgStates, ra \in {<<>>, <<TRUE>>, <<FALSE>>},
           ap \in {U, "manager-001"} }
       \cup { Call("generateQuestionForMissingField", <<f, s>>) :
                f \in MsgFields, s \in MsgStates }
       \cup { Call("generateValidationError", <<f, s>>) :
                f \in MsgFields, s \in MsgStates }
       \cup { Call("explainDecision", <<u, s, l, p, ap, t>>) :
                u \in UserIds, s \in MsgSystems, l \in EvalLevels,
                p \in {U, "project-1", "project-9"}, ap \in {U, "manager-001"},
                t \in {U, "manager-002"} }
       \cup { Call("generateClarificationQuestion", <<mf>>) :
                mf \in {<<>>, <<"system", "accessLevel">>, <<"accessLevel">>,
                        <<"project">>, <<"targetEmployeeId">>} }

\* The step that stores the message of the call.
Respond(fn, message) ==
  /\ agentResponse.fn = fn
  /\ ~agentResponse.called
  /\ agentResponse' = [agentResponse EXCEPT !.called = TRUE, !.message = message]
  /\ UNCHANGED <<requestStates, accessRequests, clientState, selectedUserId,
                 eventLog, now, callCount, evaluation, escalationRequests,
                 escalationTimers>>

RespondStateAware ==
  Respond("generateStateAwareResponse",
          generateStateAwareResponse(agentResponse.args[1], NoUpdates,
                                     agentResponse.args[2], agentResponse.args[3]))

AskMissingField ==
  Respond("generateQuestionForMissingField",
          generateQuestionForMissingField(agentResponse.args[1], agentResponse.args[2]))

ReportValidationError ==
  Respond("generateValidationError",
          generateValidationError(agentResponse.args[1], agentResponse.args[2]))

\* handleAccessRequest: validate, then explain the decision.
ExplainDecision ==
  LET a == agentResponse.args
      userRole == users[a[1]].role
  IN Respond("explainDecision",
             explainDecision(validateAccessRequest(a[1], userRole, a[2], a[3], a[4]),
                             userRole, a[2], a[3],
                             IF a[4] \in ProjectIds THEN projects[a[4]].name ELSE U,
                             a[5], a[6]))

AskClarification ==
  Respond("generateClarificationQuestion",
          generateClarificationQuestion(agentResponse.args[1]))

NextMsg ==
  \/ RespondStateAware
  \/ AskMissingField
  \/ ReportValidationError
  \/ ExplainDecision
  \/ AskClarification

SpecMsg == InitMsg /\ [][NextMsg]_vars

\* ------------------------------------------------------------------------
\* Escalations
\* ------------------------------------------------------------------------
\* Bodies of POST /api/escalation: project ids, one unknown and one missing.
EscalationProjectIds == ProjectIds \cup {"project-9", U}

\* Justifications passed to processManagerDecisionManually.
ManualJustifications == {"Approved by the project manager",
                         "justification-of-121-chars"}

\* POST /api/escalation
handleEscalationRequest(userId, projectId, system, accessLevel) ==
  IF userId = U \/ projectId = U \/ system = U \/ accessLevel = U
  THEN \* 400
       UNCHANGED vars
  ELSE IF projectId \notin ProjectIds
  THEN \* 404
       UNCHANGED vars
  ELSE /\ Len(escalationRequests) < MaxEscalations
       /\ escalationRequests' =
            createEscalationRequest(escalationRequests, userId, projectId, system,
                                    accessLevel, projects[projectId].managerId, now)
       /\ escalationTimers' = escalationTimers \cup {Len(escalationRequests) + 1}
       /\ now' = now + 1
       /\ UNCHANGED <<requestStates, accessRequests, clientState, selectedUserId,
                      eventLog, callCount, evaluation, agentResponse>>

\* A timer callback that also approves the requester's pending AccessRequests
\* when the escalation is approved.
EscalationTimerFiresGranting(requestId, approved, justification) ==
  /\ requestId \in escalationTimers
  /\ escalationTimers' = escalationTimers \ {requestId}
  /\ escalationRequests' =
       processManagerDecision(escalationRequests, requestId,
                              escalationRequests[requestId].escalationTo,
                              approved, justification, now)
  /\ accessRequests' =
       [id \in DOMAIN accessRequests |->
          IF /\ approved
             /\ accessRequests[id].userId = escalationRequests[requestId].userId
             /\ accessRequests[id].status = "pending"
          THEN [accessRequests[id] EXCEPT !.status = "approved"]
          ELSE accessRequests[id]]
  /\ UNCHANGED <<now, requestStates, clientState, selectedUserId,
                 eventLog, callCount, evaluation, agentResponse>>

\* The callback of the setTimeout started by createEscalationRequest.
EscalationTimerFires(requestId, approved, justification) ==
  /\ requestId \in escalationTimers
  /\ escalationTimers' = escalationTimers \ {requestId}
  /\ escalationRequests' =
       processManagerDecision(escalationRequests, requestId,
                              escalationRequests[requestId].escalationTo,
                              approved, justification, now)
  /\ UNCHANGED <<now, requestStates, accessRequests, clientState, selectedUserId,
                 eventLog, callCount, evaluation, agentResponse>>

\* A call of processManagerDecisionManually.
ManualManagerDecision(requestId, approved, justification) ==
  LET r == processManagerDecisionManually(escalationRequests, requestId, approved,
                                          justification, now)
  IN IF r.outcome = "ok"
     THEN /\ callCount < MaxManualDecisions
          /\ callCount' = callCount + 1
          /\ escalationRequests' = r.escalations
          /\ UNCHANGED <<now, requestStates, accessRequests, clientState, selectedUserId,
                         eventLog, evaluation, agentResponse, escalationTimers>>
     ELSE \* null or a thrown error
          UNCHANGED vars

NextEsc ==
  \/ \E p \in EscalationProjectIds :
       handleEscalationRequest(selectedUserId, p, "GitHub", "read-only")
  \/ \E id \in escalationTimers, approved \in BOOLEAN :
       \E j \in Justifications[IF approved THEN "approved" ELSE "rejected"] :
         EscalationTimerFires(id, approved, j)
  \/ \E id \in DOMAIN escalationRequests, approved \in BOOLEAN,
        j \in ManualJustifications :
       ManualManagerDecision(id, approved, j)

\* The escalations of one requester, intern-001.
InitEsc ==
  /\ requestStates = <<>>
  /\ accessRequests = <<>>
  /\ clientState = <<>>
  /\ selectedUserId = "intern-001"
  /\ eventLog = <<>>
  /\ now = 1
  /\ escalationRequests = <<>>
  /\ escalationTimers = {}
  /\ callCount = 0
  /\ agentResponse = NoResponse
  /\ evaluation = NoEvaluation

SpecEsc == InitEsc /\ [][NextEsc]_vars

\* The chat of intern-001, who files a request for Project Beta, next to the
\* escalations of the same user for Project Alpha.
LedgerIntents == {Intent("GitHub", U, "Project Beta", U), Intent(U, "read-only", U, U)}

NextEscLedger ==
  \/ \E i \in LedgerIntents : handleRequestStateUpdate(selectedUserId, i)
  \/ handleEscalationRequest(selectedUserId, "project-1", "GitHub", "read-write")
  \/ \E id \in escalationTimers, approved \in BOOLEAN :
       \E j \in Justifications[IF approved THEN "approved" ELSE "rejected"] :
         EscalationTimerFires(id, approved, j)
  \/ \E id \in DOMAIN escalationRequests, approved \in BOOLEAN :
       ManualManagerDecision(id, approved, "Approved by the project manager")

SpecEscLedger == InitEsc /\ [][NextEscLedger]_vars

\* The event loop runs every setTimeout callback that is due: the callback of
\* each escalation's timer is taken once it stays enabled.
TimerCallback(requestId) ==
  \E approved \in BOOLEAN :
    \E j \in Justifications[IF approved THEN "approved" ELSE "rejected"] :
      EscalationTimerFires(requestId, approved, j)

\* The escalations of intern-001 for Project Alpha, decided by their timers or
\* by hand.
NextEscFair ==
  \/ handleEscalationRequest(selectedUserId, "project-1", "GitHub", "read-write")
  \/ \E id \in escalationTimers : TimerCallback(id)
  \/ \E id \in DOMAIN escalationRequests, approved \in BOOLEAN,
        j \in ManualJustifications :
       ManualManagerDecision(id, approved, j)

SpecEscFair ==
  /\ InitEsc
  /\ [][NextEscFair]_vars
  /\ \A requestId \in 1..MaxEscalations : WF_vars(TimerCallback(requestId))

\* ------------------------------------------------------------------------
\* Properties
\* ------------------------------------------------------------------------
\* The outcomes of approveRequest / rejectRequest that are thrown errors.
DecisionErrors == {"error-permission", "error-not-pending", "error-reason"}

\* A brand-new DRAFT RequestState, field by field.
FreshDraft(u) ==
  [user |-> u, role |-> users[u].role, system |-> U, accessLevel |-> U,
   project |-> U, targetEmployeeId |-> U, status |-> "DRAFT",
   agentConfidence |-> "MEDIUM", missingFields |-> <<"system", "accessLevel">>,
   accessLink |-> <<>>, rejectionReason |-> U, approverId |-> U,
   approverRole |-> U, approvedAt |-> 0, rejectedAt |-> 0]

\* C1: a ledger request is decided at most once. Once its status is approved
\* or rejected, no step changes the record (status, approverId, approverRole,
\* approvedAt, rejectedAt, rejectionReason all stay); and in every ledger a
\* step produces, approveRequest and rejectRequest on the id of a decided
\* request, by any actor and with any reason, end in a thrown error and
\* return the ledger unchanged.
C1_DecidedAtMostOnce ==
  [][/\ \A id \in DOMAIN accessRequests :
          accessRequests[id].status \in {"approved", "rejected"} =>
            /\ id \in DOMAIN accessRequests'
            /\ accessRequests'[id] = accessRequests[id]
     /\ accessRequests' # accessRequests =>
          \A id \in DOMAIN accessRequests' :
            accessRequests'[id].status \in {"approved", "rejected"} =>
              \A a \in UserIds :
                LET ap == approveRequest(accessRequests', id, users[a].role, a, now')
                IN /\ ap.outcome \in DecisionErrors
                   /\ ap.requests = accessRequests'
                   /\ \A r \in Reasons :
                        LET rj == rejectRequest(accessRequests', id, users[a].role,
                                                r, a, now')
                        IN /\ rj.outcome \in DecisionErrors
                           /\ rj.requests = accessRequests']_vars

\* C1 witness: a rejected request and an approved request both sit in the
\* ledger, each with its decision metadata, open to further calls.
C1_Witness ==
  \E i, j \in DOMAIN accessRequests :
    /\ accessRequests[i].status = "rejected"
    /\ accessRequests[i].approverId # U
    /\ accessRequests[i].rejectedAt # 0
    /\ accessRequests[j].status = "approved"
    /\ accessRequests[j].approverId # U
    /\ accessRequests[j].approvedAt # 0

\* C2: when a chat message makes the IN_PROGRESS RequestState complete and the
\* rule engine finds the request invalid, the state the update stores and
\* returns is IN_PROGRESS (not REJECTED) and the ledger is unchanged.
C2_InvalidStaysInProgress ==
  [][\A i \in Intents :
       LET u == selectedUserId
           loaded == StateToUpdate(u, CurrentStateOf(u))
           terminal == loaded.status \in {"APPROVED", "REJECTED"}
           base == IF terminal THEN FreshDraft(u) ELSE loaded
           updated == updateRequestState(base, UpdatesOf(i))
       IN ( /\ handleRequestStateUpdate(u, i)
            /\ ~(terminal /\ i.system = U)
            /\ updated.status = "IN_PROGRESS"
            /\ updated.missingFields = <<>>
            /\ ~ValidationOf(updated).isValid )
          => /\ requestStates'[u].status = "IN_PROGRESS"
             /\ clientState'[u].status = "IN_PROGRESS"
             /\ accessRequests' = accessRequests]_vars

\* C2 witness: a complete IN_PROGRESS state that the rule engine rejects for
\* the level (not for the project assignment) was returned by an update and
\* no request was created.
C2_Witness ==
  \E u \in DOMAIN requestStates :
    /\ u \in DOMAIN clientState
    /\ clientState[u] = requestStates[u]
    /\ requestStates[u].status = "IN_PROGRESS"
    /\ requestStates[u].missingFields = <<>>
    /\ ~ValidationOf(requestStates[u]).isValid
    /\ ~ValidationOf(requestStates[u]).requiresEscalation
    /\ accessRequests = <<>>

\* C3: every request that enters the ledger for Email or Jira with a
\* targetEmployeeId is created pending with requiresApproval = TRUE, and the
\* requester's RequestState becomes AWAITING_APPROVAL, not APPROVED.
C3_AccountOwnedNeedsApproval ==
  [][Len(accessRequests') = Len(accessRequests) + 1 =>
       LET r == accessRequests'[Len(accessRequests')]
       IN (r.system \in {"Email", "Jira"} /\ r.targetEmployeeId # U) =>
            /\ r.status = "pending"
            /\ r.requiresApproval
            /\ requestStates'[r.userId].status = "AWAITING_APPROVAL"
            /\ clientState'[r.userId].status = "AWAITING_APPROVAL"]_vars

\* C3 witness: a pending account-owned request for which the rule engine
\* alone returns requiresApproval = FALSE.
C3_Witness ==
  \E id \in DOMAIN accessRequests :
    LET r == accessRequests[id]
    IN /\ r.system \in {"Email", "Jira"}
       /\ r.targetEmployeeId # U
       /\ r.status = "pending"
       /\ r.requiresApproval
       /\ validateAccessRequest(r.userId, r.userRole, r.system, r.accessLevel,
                                r.projectId).isValid
       /\ ~validateAccessRequest(r.userId, r.userRole, r.system, r.accessLevel,
                                 r.projectId).requiresApproval
       /\ requestStates[r.userId].status = "AWAITING_APPROVAL"

\* C4: for every viewer V the list getPendingApprovalsForManager(V, role of V)
\* holds exactly the pending ledger requests that V may see: all of them when
\* V is an IT Administrator, else those whose assignedApproverId is V. Each is
\* listed once and as it stands in the ledger.
C4_PendingVisibility ==
  \A V \in UserIds :
    LET shown == getPendingApprovalsForManager(accessRequests, V, users[V].role)
        expected == { id \in DOMAIN accessRequests :
                        /\ accessRequests[id].status = "pending"
                        /\ \/ users[V].role = "IT Administrator"
                           \/ accessRequests[id].assignedApproverId = V }
    IN /\ { shown[k].id : k \in DOMAIN shown } = expected
       /\ Len(shown) = Cardinality(expected)
       /\ \A k \in DOMAIN shown : shown[k] = accessRequests[shown[k].id]

\* C4 witness: one decided and one pending request; the pending one is shown
\* to its assigned approver and to the IT Administrator, not to the other
\* manager.
C4_Witness ==
  /\ Len(accessRequests) = 2
  /\ Len(getPendingApprovalsForManager(accessRequests, "manager-002", "Manager")) = 1
  /\ Len(getPendingApprovalsForManager(accessRequests, "manager-001", "Manager")) = 0
  /\ Len(getPendingApprovalsForManager(accessRequests, "admin-001",
                                       "IT Administrator")) = 1

\* C5: a pending request leaves the pending status only by an actor whose role
\* can approve requests or who is the employeeOwnerId of that request; for
\* every other actor approveRequest and rejectRequest refuse with the
\* permission error and return the ledger unchanged.
C5_OnlyPermittedActorsDecide ==
  [][\A id \in DOMAIN accessRequests :
       accessRequests[id].status = "pending" =>
         /\ accessRequests'[id].status # "pending" =>
              LET a == accessRequests'[id].approverId
              IN /\ a \in UserIds
                 /\ accessRequests'[id].approverRole = users[a].role
                 /\ \/ canApproveRequests(users[a].role)
                    \/ a = accessRequests[id].employeeOwnerId
         /\ \A a \in UserIds :
              (~canApproveRequests(users[a].role)
               /\ a # accessRequests[id].employeeOwnerId) =>
                /\ approveRequest(accessRequests, id, users[a].role, a,
                                  now).outcome = "error-permission"
                /\ rejectRequest(accessRequests, id, users[a].role,
                                 "Access level too high for intern role", a,
                                 now).outcome = "error-permission"]_vars

\* C5 witness: an Intern, whose role cannot approve, has decided the request
\* for their own account, while another pending request not owned by them
\* stays closed to them.
C5_Witness ==
  \E id \in DOMAIN accessRequests :
    /\ accessRequests[id].status \in {"approved", "rejected"}
    /\ accessRequests[id].approverId = "intern-001"
    /\ accessRequests[id].employeeOwnerId = "intern-001"
    /\ accessRequests[id].approverRole = "Intern"
    /\ ~canApproveRequests("Intern")

\* C6: for every role, system and level, validateAccessRequest called with the
\* id of a project the requester is not assigned to, the requester not being
\* an IT Administrator, returns isValid = FALSE, requiresEscalation = TRUE and
\* escalationTo = the manager of that project.
C6_MembershipGateFirst ==
  ( /\ evaluation.called
    /\ evaluation.projectId \in ProjectIds
    /\ RoleOfUser(evaluation.userId) # "IT Administrator"
    /\ \/ evaluation.userId \notin UserIds
       \/ evaluation.projectId \notin projectAssignments[evaluation.userId] )
  => /\ evaluation.output.isValid = FALSE
     /\ evaluation.output.requiresEscalation = TRUE
     /\ evaluation.output.escalationTo = projects[evaluation.projectId].managerId

\* C6 witness: an Intern asks for admin access to GitHub on Project Alpha, to
\* which they are not assigned; the role checks alone would deny the admin
\* level, and the call returns the escalation to the project's manager.
C6_Witness ==
  /\ evaluation.called
  /\ evaluation.userId = "intern-001"
  /\ evaluation.role = "Intern"
  /\ evaluation.system = "GitHub"
  /\ evaluation.level = "admin"
  /\ evaluation.projectId = "project-1"
  /\ roleAndLevelChecks("Intern", "GitHub", "admin").rejectionReason = "no-admin"
  /\ evaluation.output.requiresEscalation
  /\ evaluation.output.escalationTo = "manager-001"

\* C7: every event of a decision, approval or rejection, taken by an IT
\* Administrator on a request whose assignedApproverId is set and is not the
\* actor carries originalResourceOwnerId = assignedApproverId with a message
\* for that approver, besides the actor's and the requester's messages.
C7_OverrideNotifiesOriginalApprover ==
  \A k \in DOMAIN eventLog :
    LET e == eventLog[k]
        r == accessRequests[e.requestId]
    IN ( /\ e.approverRole = "IT Administrator"
         /\ r.assignedApproverId # U
         /\ r.assignedApproverId # e.managerId )
       => /\ e.originalResourceOwnerId = r.assignedApproverId
          /\ e.originalResourceOwnerMessage # U
          /\ e.managerMessage # U
          /\ e.internMessage # U

\* C8: in every stored RequestState the approval outcome fields (accessLink,
\* approvedAt) and the rejection outcome fields (rejectionReason, rejectedAt)
\* are not populated at the same time.
C8_OutcomesExclusive ==
  \A u \in DOMAIN requestStates :
    LET s == requestStates[u]
    IN ~( /\ (s.accessLink # <<>> \/ s.approvedAt # 0)
          /\ (s.rejectionReason # U \/ s.rejectedAt # 0) )

\* C9: in every stored RequestState missingFields is the list recomputed from
\* the selections in the fixed order system, targetEmployeeId (Email or Jira
\* asked by an Intern), project (GitHub), accessLevel; so accessLevel, when
\* missing, is last.
C9_MissingFieldsRecomputed ==
  \A u \in DOMAIN requestStates :
    LET s == requestStates[u]
        expected ==
          (IF s.system = U THEN <<"system">> ELSE <<>>)
          \o (IF s.system \in {"Email", "Jira"} /\ s.role = "Intern"
                 /\ s.targetEmployeeId = U
              THEN <<"targetEmployeeId">> ELSE <<>>)
          \o (IF s.system = "GitHub" /\ s.project = U THEN <<"project">> ELSE <<>>)
          \o (IF s.accessLevel = U THEN <<"accessLevel">> ELSE <<>>)
    IN /\ s.missingFields = expected
       /\ \A k \in DOMAIN s.missingFields :
            s.missingFields[k] = "accessLevel" => k = Len(s.missingFields)

\* C9 witness: an Intern has chosen Email and nothing else; the account owner
\* is asked for before the access level.
C9_Witness ==
  \E u \in DOMAIN requestStates :
    /\ requestStates[u].system = "Email"
    /\ requestStates[u].missingFields = <<"targetEmployeeId", "accessLevel">>

\* C10: a reset stores and returns a state equal field for field to
\* createInitialRequestState(userId, role): DRAFT, no selections,
\* missingFields [system, accessLevel], confidence MEDIUM, no outcome fields.
\* The reset a chat message triggers on a terminal state starts the new
\* request from that same state.
C10_ResetIsFresh ==
  [][LET u == selectedUserId
     IN /\ resetRequestStateForUser(u) =>
             /\ requestStates'[u] = FreshDraft(u)
             /\ requestStates'[u] = createInitialRequestState(u, users[u].role)
             /\ clientState'[u] = FreshDraft(u)
        /\ StateToUpdate(u, CurrentStateOf(u)).status \in {"APPROVED", "REJECTED"} =>
             \A i \in Intents :
               ( /\ i.system # U
                 /\ handleRequestStateUpdate(u, i) )
               => requestStates'[u] =
                    processStateUpdate(FreshDraft(u), UpdatesOf(i),
                                       accessRequests, now).state]_vars

\* C10 witness: the requester's second message completed a request that was
\* approved on the spot (state APPROVED with accessLink and approvedAt), no
\* further message was sent, and the stored and returned state is the fresh
\* DRAFT: it was reset from the APPROVED state.
C10_Witness ==
  /\ callCount = 2
  /\ Len(accessRequests) = 1
  /\ accessRequests[1].status = "approved"
  /\ ~accessRequests[1].requiresApproval
  /\ selectedUserId = accessRequests[1].userId
  /\ selectedUserId \in DOMAIN requestStates
  /\ selectedUserId \in DOMAIN clientState
  /\ requestStates[selectedUserId] = FreshDraft(selectedUserId)
  /\ clientState[selectedUserId] = FreshDraft(selectedUserId)

\* C11: once a stored RequestState is APPROVED or REJECTED, a step either
\* leaves its status as it is or replaces the record by the fresh DRAFT state
\* of a reset (alone, or followed within the same chat-message handler by the
\* update of the new request); the status never moves in place to IN_PROGRESS
\* or AWAITING_APPROVAL, nor between APPROVED and REJECTED, also when the
\* message carries an older client-held copy of the state.
C11_TerminalOnlyLeftByReset ==
  [][\A u \in DOMAIN requestStates :
       requestStates[u].status \in {"APPROVED", "REJECTED"} =>
         \/ requestStates'[u].status = requestStates[u].status
         \/ requestStates'[u] = FreshDraft(u)
         \/ \E i \in Intents :
              /\ i.system # U
              /\ requestStates'[u] =
                   processStateUpdate(FreshDraft(u), UpdatesOf(i),
                                      accessRequests, now).state]_vars

C13_InternAdminNeverAwaiting ==
  /\ \A u \in DOMAIN requestStates :
       ~( /\ requestStates[u].role = "Intern"
          /\ requestStates[u].accessLevel = "admin"
          /\ requestStates[u].status = "AWAITING_APPROVAL" )
  /\ \A u \in DOMAIN clientState :
       ~( /\ clientState[u].role = "Intern"
          /\ clientState[u].accessLevel = "admin"
          /\ clientState[u].status = "AWAITING_APPROVAL" )
  /\ \A s \in Systems :
       LET d == validateAccessRequest("intern-001", "Intern", s, "admin", U)
       IN ~d.isValid /\ d.allowedAccessLevel = U /\ ~d.downgradeReason

\* C14: every stored RequestState of an Intern for Email or Jira with access
\* level read-only has confidence HIGH and, when no required field is missing,
\* is APPROVED with an accessLink, and the ledger holds no pending request of
\* that requester for that system.
C14_InternReadOnlyAutoApproved ==
  \A u \in DOMAIN requestStates :
    LET s == requestStates[u]
    IN ( /\ s.role = "Intern"
         /\ s.system \in {"Email", "Jira"}
         /\ s.accessLevel = "read-only" )
       => /\ s.agentConfidence = "HIGH"
          /\ s.missingFields = <<>> =>
               /\ s.status = "APPROVED"
               /\ s.accessLink # <<>>
               /\ ~\E id \in DOMAIN accessRequests :
                     /\ accessRequests[id].userId = u
                     /\ accessRequests[id].system = s.system
                     /\ accessRequests[id].status = "pending"

\* The actors allowed to decide a request: roles that can approve, and the
\* owner of the target account.
AuthorizedActors(request) ==
  { a \in UserIds : canApproveRequests(users[a].role) \/ a = request.employeeOwnerId }

\* C15: the approve and reject handlers run to completion one after the other
\* (they are synchronous), so two attempts on one pending request interleave
\* as whole handlers. In every step that decides a pending request exactly one
\* decision takes effect: one event is returned, for that request and from the
\* actor the ledger records; every later attempt by an authorized actor,
\* approve or reject, fails with the not-pending error and writes nothing; and
\* the requester's RequestState, when it was AWAITING_APPROVAL, carries the
\* status, approver and timestamp of that same decision (and is untouched
\* otherwise).
C15_OneDecisionWins ==
  [][\A id \in DOMAIN accessRequests :
       (accessRequests[id].status = "pending" /\ accessRequests'[id].status # "pending") =>
         LET r == accessRequests'[id]
             u == r.userId
             e == eventLog'[Len(eventLog')]
             approved == r.status = "approved"
         IN /\ Len(eventLog') = Len(eventLog) + 1
            /\ e.requestId = id
            /\ e.managerId = r.approverId
            /\ e.type = IF approved THEN "approval" ELSE "rejection"
            /\ r.approverId \in AuthorizedActors(accessRequests[id])
            /\ \A j \in DOMAIN accessRequests : j # id => accessRequests'[j] = accessRequests[j]
            /\ \A a \in AuthorizedActors(r) :
                 /\ approveRequest(accessRequests', id, users[a].role, a, now').outcome
                      = "error-not-pending"
                 /\ rejectRequest(accessRequests', id, users[a].role,
                                  "Access level too high for intern role", a,
                                  now').outcome = "error-not-pending"
            /\ IF u \in DOMAIN requestStates
                  /\ requestStates[u].status = "AWAITING_APPROVAL"
               THEN LET s == requestStates'[u]
                    IN /\ s.status = IF approved THEN "APPROVED" ELSE "REJECTED"
                       /\ s.approverId = r.approverId
                       /\ s.approverRole = r.approverRole
                       /\ s.approvedAt = r.approvedAt
                       /\ s.rejectedAt = r.rejectedAt
                       /\ s.rejectionReason = r.rejectionReason
                       /\ s.accessLink = e.accessLink
               ELSE requestStates' = requestStates]_vars

\* C15 witness: a request assigned to a manager, which the manager and the IT
\* Administrator could both decide, was rejected by the IT Administrator, and
\* the requester's state carries that rejection.
C15_Witness ==
  \E id \in DOMAIN accessRequests :
    LET r == accessRequests[id]
    IN /\ r.status = "rejected"
       /\ r.approverId = "admin-001"
       /\ r.assignedApproverId \in {"manager-001", "manager-002"}
       /\ Cardinality(AuthorizedActors(r)) >= 2
       /\ r.userId \in DOMAIN requestStates
       /\ requestStates[r.userId].status = "REJECTED"
       /\ requestStates[r.userId].approverId = "admin-001"
       /\ requestStates[r.userId].rejectedAt = r.rejectedAt
       /\ requestStates[r.userId].rejectionReason = r.rejectionReason

\* The argument tuples of validateAccessRequest that the requests of a ledger
\* and a requester's RequestState stand for.
CallsOf(reqs, states) ==
  { <<reqs[id].userId, reqs[id].userRole, reqs[id].system, reqs[id].accessLevel,
      reqs[id].projectId>> : id \in DOMAIN reqs }
  \cup { <<states[u].user, states[u].role, states[u].system, states[u].accessLevel,
           ProjectIdOf(states[u].project)>> : u \in DOMAIN states }

GatePassedAndRulesDefined ==
  /\ evaluation.called
  /\ \/ evaluation.projectId = U
     \/ validateProjectAccess(evaluation.userId, evaluation.projectId).isAssigned
  /\ evaluation.role \in DOMAIN accessRules
  /\ evaluation.system \in Systems

\* C17: for the requested level admin, once the project assignment check has
\* passed and the role has rules for the system, validateAccessRequest returns
\* a valid decision exactly when the role is IT Administrator (no approval),
\* or Manager asking for Jira (no approval), or Developer with
\* adminAccess.requiresApproval set (approval required); the valid decisions
\* allow admin, and every other case is isValid = FALSE with no
\* allowedAccessLevel and no downgradeReason.
C17_AdminGrantedOrDenied ==
  (GatePassedAndRulesDefined /\ evaluation.level = "admin") =>
    LET d == evaluation.output
        r == evaluation.role
        itAdmin == r = "IT Administrator"
        managerJira == r = "Manager" /\ evaluation.system = "Jira"
        developer == r = "Developer" /\ accessRules[r].adminAccessRequiresApproval
    IN /\ d.isValid <=> (itAdmin \/ managerJira \/ developer)
       /\ d.isValid =>
            /\ d.allowedAccessLevel = "admin"
            /\ d.requiresApproval <=> (~itAdmin /\ ~managerJira)
       /\ ~d.isValid =>
            /\ d.allowedAccessLevel = U
            /\ ~d.requiresApproval
       /\ ~d.downgradeReason
       /\ ~d.requiresEscalation

\* C17 witness: an Intern asks for admin access to Email; the downgrade table
\* has an entry for that request (default), and the call returns the denial.
C17_Witness ==
  /\ GatePassedAndRulesDefined
  /\ evaluation.level = "admin"
  /\ evaluation.role = "Intern"
  /\ evaluation.system = "Email"
  /\ findDowngradedAccessLevel(accessRules["Intern"]["Email"], "admin", "Email",
                               "Intern") = "default"
  /\ ~evaluation.output.isValid
  /\ evaluation.output.rejectionReason = "no-admin"

\* The capability flag of SystemRules that carries the name of a level.
ExactFlag(r, level) ==
  CASE level = "read-only"   -> r.readOnly
    [] level = "read-write"  -> r.readWrite
    [] level = "view"        -> r.view
    [] level = "comment"     -> r.comment
    [] level = "create-edit" -> r.createEdit
    [] level = "default"     -> r.default
    [] OTHER                 -> FALSE

\* The levels below a level in the downgrade cascade.
LowerLevels(level) ==
  CASE level = "read-write"  -> {"read-only"}
    [] level = "create-edit" -> {"comment", "view"}
    [] level = "comment"     -> {"view"}
    [] OTHER                 -> {}

\* C18: for a requested level L other than admin (project assignment check
\* passed, rules defined), validateAccessRequest returns a valid decision
\* without downgradeReason only if the flag of exactly L is set for the role
\* and system; and if that flag is not set, the decision is either valid with
\* a downgradeReason and an allowedAccessLevel that is a lower level of the
\* cascade whose own flag is set, or invalid with no lower level's flag set.
C18_ExactLevelOrDowngrade ==
  ( /\ GatePassedAndRulesDefined
    /\ evaluation.level \in AccessLevels \ {"admin"} ) =>
    LET d == evaluation.output
        r == accessRules[evaluation.role][evaluation.system]
        L == evaluation.level
    IN /\ (d.isValid /\ ~d.downgradeReason) => ExactFlag(r, L)
       /\ ~ExactFlag(r, L) =>
            \/ /\ d.isValid
               /\ d.downgradeReason
               /\ d.allowedAccessLevel \in LowerLevels(L)
               /\ ExactFlag(r, d.allowedAccessLevel)
            \/ /\ ~d.isValid
               /\ \A l \in LowerLevels(L) : ~ExactFlag(r, l)

\* C19: every request in the ledger records as accessLevel the
\* allowedAccessLevel of the rule engine's decision on the request (the
\* downgraded level when the engine downgraded), and the level the ledger
\* holds is the one the engine returns for it.
C19_LedgerRecordsAllowedLevel ==
  \A id \in DOMAIN accessRequests :
    LET r == accessRequests[id]
        d == validateAccessRequest(r.userId, r.userRole, r.system, r.accessLevel,
                                   r.projectId)
    IN /\ d.isValid
       /\ r.accessLevel = d.allowedAccessLevel
       /\ ~d.downgradeReason

\* C20: every request in the ledger has its primary approver from exactly one
\* source. A project-scoped request has projectOwnerManagerId set and
\* assignedApproverId equal to the project's manager; an account-owned request
\* (Email or Jira with a target employee) has employeeOwnerId set and
\* assignedApproverId equal to that account owner; and no request has both
\* projectOwnerManagerId and employeeOwnerId set.
C20_ApproverFromOneSource ==
  \A id \in DOMAIN accessRequests :
    LET r == accessRequests[id]
    IN /\ r.projectId # U =>
            /\ r.projectOwnerManagerId = projects[r.projectId].managerId
            /\ r.assignedApproverId = projects[r.projectId].managerId
       /\ (r.system \in {"Email", "Jira"} /\ r.targetEmployeeId # U) =>
            /\ r.employeeOwnerId = r.targetEmployeeId
            /\ r.assignedApproverId = r.targetEmployeeId
       /\ ~(r.projectOwnerManagerId # U /\ r.employeeOwnerId # U)

\* C21: an EscalationRequest is resolved exactly once. Once its status is
\* approved or rejected, no step changes its status or its justification:
\* neither processManagerDecisionManually nor the firing of the timer
\* (processManagerDecision), in whichever order the two come.
C21_EscalationResolvedOnce ==
  [][\A id \in DOMAIN escalationRequests :
       escalationRequests[id].status \in {"approved", "rejected"} =>
         /\ escalationRequests'[id].status = escalationRequests[id].status
         /\ escalationRequests'[id].justification
              = escalationRequests[id].justification]_vars

\* C22: for a pending request and an actor who lacks permission (a role that
\* cannot approve, and not the owner of the target account), approveRequest
\* and rejectRequest return the permission error with the ledger as it was
\* and no event, and the approve and reject handlers called by that actor
\* change nothing: the request stays pending with no decision metadata and
\* the requester's RequestState is as before.
C22_PermissionRefusalChangesNothing ==
  [][/\ accessRequests' # accessRequests =>
          \A id \in DOMAIN accessRequests' :
            accessRequests'[id].status = "pending" =>
              \A a \in UserIds \ AuthorizedActors(accessRequests'[id]) :
                LET ap == approveRequest(accessRequests', id, users[a].role, a, now')
                    rj == rejectRequest(accessRequests', id, users[a].role,
                                        "Access level too high for intern role", a,
                                        now')
                IN /\ ap.outcome = "error-permission"
                   /\ ap.requests = accessRequests'
                   /\ ap.event = NoEvent
                   /\ rj.outcome = "error-permission"
                   /\ rj.requests = accessRequests'
                   /\ rj.event = NoEvent
     /\ \A id \in DOMAIN accessRequests :
          accessRequests[id].status = "pending" =>
            \A a \in UserIds \ AuthorizedActors(accessRequests[id]) :
              /\ approveAccessRequest(id, a) => UNCHANGED vars
              /\ rejectAccessRequest(id, a, "Access level too high for intern role")
                   => UNCHANGED vars]_vars

\* C22 witness: the Intern's own request is pending with a manager; the Intern
\* has no permission on it, the call is refused, and the record carries no
\* decision metadata while the Intern's state awaits approval.
C22_Witness ==
  \E id \in DOMAIN accessRequests :
    LET r == accessRequests[id]
    IN /\ r.status = "pending"
       /\ r.userId = "intern-001"
       /\ r.assignedApproverId = "manager-002"
       /\ "intern-001" \notin AuthorizedActors(r)
       /\ approveRequest(accessRequests, id, "Intern", "intern-001", now).outcome
            = "error-permission"
       /\ r.approverId = U /\ r.approvedAt = 0 /\ r.rejectedAt = 0
       /\ requestStates["intern-001"].status = "AWAITING_APPROVAL"

\* C23: a rejection takes effect only with a reason of 1 to 120 characters.
\* Every rejected request of the ledger carries such a rejectionReason; the
\* reject handler called on a pending request by an actor with permission,
\* with no reason or with a reason of more than 120 characters, changes
\* nothing, so the request stays pending; and an approved request carries no
\* reason.
C23_RejectionNeedsBoundedReason ==
  [][/\ accessRequests' # accessRequests =>
          \A id \in DOMAIN accessRequests' :
            LET r == accessRequests'[id]
            IN /\ r.status = "rejected" =>
                    /\ r.rejectionReason # U
                    /\ ReasonLength(r.rejectionReason) >= 1
                    /\ ReasonLength(r.rejectionReason) <= 120
               /\ r.status = "approved" => r.rejectionReason = U
     /\ \A id \in DOMAIN accessRequests :
          accessRequests[id].status = "pending" =>
            \A a \in AuthorizedActors(accessRequests[id]) :
              \A reason \in {"", "reason-of-121-chars"} :
                rejectAccessRequest(id, a, reason) => UNCHANGED vars]_vars

\* C23 witness: a request was rejected by its assigned approver with a reason
\* of 37 characters, after which the ledger records that reason.
C23_Witness ==
  \E id \in DOMAIN accessRequests :
    LET r == accessRequests[id]
    IN /\ r.status = "rejected"
       /\ r.approverId = r.assignedApproverId
       /\ r.rejectionReason = "Access level too high for intern role"
       /\ ReasonLength(r.rejectionReason) = 37
       /\ RejectInputError("") # U
       /\ RejectInputError("reason-of-121-chars") # U

\* C24: when a decision succeeds (an event is emitted) and the requester's
\* stored RequestState is AWAITING_APPROVAL, the state after the step is
\* APPROVED with the event's accessLink, or REJECTED with the given reason;
\* it carries the deciding actor's id and role and the decision timestamp, and
\* the fields of the opposite outcome are unset.
C24_DecisionWrittenBack ==
  [][eventLog' # eventLog =>
       LET e == eventLog'[Len(eventLog')]
           u == e.internId
       IN (u \in DOMAIN requestStates /\ requestStates[u].status = "AWAITING_APPROVAL")
            => LET s == requestStates'[u]
               IN /\ s.approverId = e.managerId
                  /\ s.approverRole = users[e.managerId].role
                  /\ IF e.type = "approval"
                     THEN /\ s.status = "APPROVED"
                          /\ s.accessLink = e.accessLink
                          /\ s.accessLink # <<>>
                          /\ s.approvedAt = now
                          /\ s.rejectionReason = U
                          /\ s.rejectedAt = 0
                     ELSE /\ s.status = "REJECTED"
                          /\ s.rejectionReason = e.rejectionReason
                          /\ s.rejectionReason \in Reasons
                          /\ s.rejectedAt = now
                          /\ s.accessLink = <<>>
                          /\ s.approvedAt = 0]_vars

\* C24 witness: a requester whose state was written back as REJECTED and then
\* came to await approval again with the stale rejection fields was approved:
\* the state is APPROVED with a link and without the rejection fields, while
\* the ledger holds both the rejected and the approved request.
C24_Witness ==
  \E u \in DOMAIN requestStates :
    /\ requestStates[u].status = "APPROVED"
    /\ requestStates[u].accessLink # <<>>
    /\ requestStates[u].approverId # U
    /\ requestStates[u].rejectionReason = U
    /\ \E i, j \in DOMAIN accessRequests :
         /\ i < j
         /\ accessRequests[i].userId = u /\ accessRequests[i].status = "rejected"
         /\ accessRequests[j].userId = u /\ accessRequests[j].status = "approved"
         /\ accessRequests[j].approvedAt = requestStates[u].approvedAt

\* The fields of an AccessRequest that are fixed at creation.
CreationFields(r) ==
  <<r.id, r.userId, r.userName, r.userRole, r.system, r.accessLevel, r.project,
    r.projectId, r.projectOwnerManagerId, r.targetEmployeeId, r.employeeOwnerId,
    r.assignedApproverId, r.fallbackApproverId, r.requiresApproval, r.createdAt>>

\* C25: every step keeps each ledger record under its id with its id, userId,
\* userRole, system, accessLevel, project, targetEmployeeId,
\* assignedApproverId and fallbackApproverId (and its other creation fields);
\* a record changes only as the result of approveRequest or rejectRequest on
\* it while it is pending, which sets status, approvalBy, approverId,
\* approverRole, updatedAt and approvedAt (leaving rejectedAt and
\* rejectionReason) or rejectedAt and rejectionReason (leaving approvedAt).
C25_DecisionChangesOnlyMetadata ==
  [][accessRequests' # accessRequests =>
       \A id \in DOMAIN accessRequests :
         /\ id \in DOMAIN accessRequests'
         /\ LET r == accessRequests[id]
                q == accessRequests'[id]
            IN /\ CreationFields(q) = CreationFields(r)
               /\ q # r =>
                    /\ r.status = "pending"
                    /\ \A j \in DOMAIN accessRequests \ {id} :
                         accessRequests'[j] = accessRequests[j]
                    /\ Len(accessRequests') = Len(accessRequests)
                    /\ \/ /\ q.status = "approved"
                          /\ q.rejectedAt = r.rejectedAt
                          /\ q.rejectionReason = r.rejectionReason
                          /\ \E a \in UserIds :
                               LET ap == approveRequest(accessRequests, id,
                                                        users[a].role, a, now)
                               IN ap.outcome = "ok" /\ ap.requests = accessRequests'
                       \/ /\ q.status = "rejected"
                          /\ q.approvedAt = r.approvedAt
                          /\ \E a \in UserIds, reason \in Reasons :
                               LET rj == rejectRequest(accessRequests, id,
                                                       users[a].role, reason, a, now)
                               IN rj.outcome = "ok" /\ rj.requests = accessRequests']_vars

\* C25 witness: the ledger holds an approved and a rejected request, each
\* decided by an IT Administrator who was not its assigned approver, and each
\* still carries the requester, resource, level and approvers it was created
\* with.
C25_Witness ==
  \E i, j \in DOMAIN accessRequests :
    LET r == accessRequests[i]
        q == accessRequests[j]
    IN /\ r.status = "approved" /\ r.approverId = "admin-001"
       /\ r.assignedApproverId \notin {U, "admin-001"}
       /\ r.fallbackApproverId = "admin-001"
       /\ r.updatedAt = r.approvedAt /\ r.updatedAt > r.createdAt
       /\ q.status = "rejected" /\ q.approverId = "admin-001"
       /\ q.assignedApproverId \notin {U, "admin-001"}
       /\ q.updatedAt = q.rejectedAt /\ q.updatedAt > q.createdAt
       /\ r.system # U /\ r.accessLevel # U /\ q.system # U /\ q.accessLevel # U

\* C26: the RequestState stored for a requester carries that requester's id
\* and role, and a message update submitted for the selected requester
\* changes the stored state of no other requester.
C26_UpdateTouchesOnlyItsRequester ==
  [][/\ \A k \in DOMAIN requestStates' :
          /\ requestStates'[k].user = k
          /\ requestStates'[k].role = users[k].role
     /\ callCount' # callCount =>
          \A k \in DOMAIN requestStates \ {selectedUserId} :
            requestStates'[k] = requestStates[k]]_vars

\* The state the update handler applies its updates to: the state the front
\* end holds, else the stored one, else a fresh one.
StateBeforeUpdate == StateToUpdate(selectedUserId, CurrentStateOf(selectedUserId))

\* The intents for which the step taken is the update handler's step.
IntentsOfStep == { i \in UpdateIntents : handleRequestStateUpdate(selectedUserId, i) }

\* C27: an update of a state that is not terminal which names a system other
\* than the current one leaves the state without accessLevel, and without
\* project unless the new system is GitHub; an update that does not change the
\* system leaves accessLevel and project as they were unless it names new
\* values for them, which it then takes.
C27_SystemChangeClearsDependents ==
  [][callCount' # callCount =>
       LET s == StateBeforeUpdate
           q == requestStates'[s.user]
       IN s.status \notin {"APPROVED", "REJECTED"} =>
            \A i \in IntentsOfStep :
              IF i.system # U /\ i.system # s.system
              THEN /\ q.system = i.system
                   /\ q.accessLevel = U
                   /\ i.system # "GitHub" => q.project = U
              ELSE /\ q.system = s.system
                   /\ q.accessLevel = IF i.accessLevel # U THEN i.accessLevel
                                      ELSE s.accessLevel
                   /\ q.project = IF i.project # U THEN i.project ELSE s.project]_vars

\* C27 witness: after at least three updates the selected requester's state
\* is on Email with an employee chosen and has neither level nor project.
C27_Witness ==
  /\ selectedUserId \in DOMAIN requestStates
  /\ requestStates[selectedUserId].system = "Email"
  /\ requestStates[selectedUserId].accessLevel = U
  /\ requestStates[selectedUserId].project = U
  /\ requestStates[selectedUserId].targetEmployeeId = "manager-002"
  /\ callCount >= 3

\* C28: the update handler answers every combination of named fields with a
\* state, and each of system, accessLevel, project and targetEmployeeId that
\* the update names has the named value in the resulting state.
C28_SuppliedValueIsResult ==
  [][callCount' # callCount =>
       LET s == StateBeforeUpdate
           q == requestStates'[s.user]
       IN s.status \notin {"APPROVED", "REJECTED"} =>
            \A i \in IntentsOfStep :
              /\ i.system # U => q.system = i.system
              /\ i.accessLevel # U => q.accessLevel = i.accessLevel
              /\ i.project # U => q.project = i.project
              /\ i.targetEmployeeId # U => q.targetEmployeeId = i.targetEmployeeId]_vars

\* C29: the message of every call of generateStateAwareResponse,
\* generateQuestionForMissingField, generateValidationError, explainDecision
\* and generateClarificationQuestion has at most 120 characters, and
\* truncateMessage cuts a text of more than 120 characters to its first 117
\* characters followed by "...".
C29_ResponseWithin120 ==
  agentResponse.called =>
    LET m == agentResponse.message
        long == m \o " " \o m \o " " \o m \o " " \o m \o " " \o m
    IN /\ Len(m) >= 1
       /\ Len(m) <= 120
       /\ truncateMessage(m) = m
       /\ Len(long) > 120 =>
            /\ Len(truncateMessage(long)) = 120
            /\ SubSeq(truncateMessage(long), 1, 117) = SubSeq(long, 1, 117)
            /\ SubSeq(truncateMessage(long), 118, 120) = "..."

\* C29 witness: explainDecision was called for the system with the long name;
\* its text had more than 120 characters and the message is the first 117
\* followed by "...".
C29_Witness ==
  /\ agentResponse.called
  /\ agentResponse.fn = "explainDecision"
  /\ agentResponse.args[2] = LongSystemName
  /\ Len(agentResponse.message) = 120
  /\ SubSeq(agentResponse.message, 118, 120) = "..."
  /\ SubSeq(agentResponse.message, 1, 10) = "Access to "

\* C30: the actor's message, the requester's message and the original-approver
\* message of every approval or rejection event emitted have at most 120
\* characters each.
C30_EventMessagesWithin120 ==
  [][eventLog' # eventLog =>
       LET e == eventLog'[Len(eventLog')]
           t == EventTexts(e, accessRequests'[e.requestId])
       IN /\ Len(t.managerMessage) <= 120
          /\ Len(t.internMessage) <= 120
          /\ Len(t.originalResourceOwnerMessage) <= 120]_vars

\* C31: through message updates, decisions, resets and changes of the selected
\* user, a stored RequestState is DRAFT exactly when its system is unset, and
\* the step in which a stored state first has a system takes it from DRAFT to
\* IN_PROGRESS.
C31_DraftIffNoSystem ==
  [][\A u \in DOMAIN requestStates' :
       LET q == requestStates'[u]
       IN /\ (q.status = "DRAFT") <=> (q.system = U)
          /\ (u \in DOMAIN requestStates /\ requestStates[u].system = U
              /\ q.system # U)
               => /\ requestStates[u].status = "DRAFT"
                  /\ q.status = "IN_PROGRESS"]_vars

\* C31 witness: a state that was approved and reset is DRAFT without a system
\* while another requester's state has a system and is IN_PROGRESS.
C31_Witness ==
  \E u, v \in DOMAIN requestStates :
    /\ requestStates[u] = FreshDraft(u)
    /\ \E id \in DOMAIN accessRequests :
         accessRequests[id].userId = u /\ accessRequests[id].status = "approved"
    /\ requestStates[v].status = "IN_PROGRESS"
    /\ requestStates[v].system # U

\* C32: for every stored RequestState that is not IN_PROGRESS or that still
\* misses a required field, transitionToAwaitingApproval throws, returns the
\* ledger without a new AccessRequest and saves nothing, and the call on the
\* stored state changes neither the store nor the ledger.
C32_FinalizeGuarded ==
  [][/\ requestStates' # requestStates =>
          \A u \in DOMAIN requestStates' :
            LET s == requestStates'[u]
                t == transitionToAwaitingApproval(s, accessRequests', now')
            IN (s.status # "IN_PROGRESS" \/ s.missingFields # <<>>) =>
                 /\ t.threw \in {"invalid-transition", "missing-fields"}
                 /\ t.requests = accessRequests'
                 /\ t.state = s
     /\ ( /\ selectedUserId \in DOMAIN requestStates
          /\ \/ requestStates[selectedUserId].status # "IN_PROGRESS"
             \/ requestStates[selectedUserId].missingFields # <<>>
          /\ Finalize(selectedUserId) )
        => UNCHANGED <<requestStates, accessRequests, now>>]_vars

\* C32 witness: after the last call allowed, the selected requester's state
\* awaits approval with all its fields, the call on it throws for its status,
\* and the ledger holds the one request of its finalization.
C32_Witness ==
  /\ selectedUserId \in DOMAIN requestStates
  /\ requestStates[selectedUserId].status = "AWAITING_APPROVAL"
  /\ requestStates[selectedUserId].missingFields = <<>>
  /\ Len(accessRequests) = 1
  /\ callCount = MaxCalls
  /\ shouldAutoSubmit(requestStates[selectedUserId])
  /\ transitionToAwaitingApproval(requestStates[selectedUserId], accessRequests, now).threw
       = "invalid-transition"

\* C33: every pending AccessRequest created by finalization has a primary
\* approver: assignedApproverId is set, whatever the role, system and level
\* for which the evaluator asked for approval.
C33_PendingHasPrimaryApprover ==
  \A id \in DOMAIN accessRequests :
    accessRequests[id].status = "pending" => accessRequests[id].assignedApproverId # U

\* C34: every EscalationRequest that is created eventually leaves status
\* pending, with a justification: if nobody resolves it by hand, the timer
\* started at its creation fires and decides it.
C34_EscalationEventuallyDecided ==
  \A requestId \in 1..MaxEscalations :
    (requestId \in DOMAIN escalationRequests)
      ~> (/\ requestId \in DOMAIN escalationRequests
          /\ escalationRequests[requestId].status \in {"approved", "rejected"}
          /\ escalationRequests[requestId].justification # U)

\* An escalation nobody resolved by hand that its timer has decided.
C34_Witness ==
  /\ callCount = 0
  /\ \E requestId \in DOMAIN escalationRequests :
       /\ requestId \notin escalationTimers
       /\ escalationRequests[requestId].status = "rejected"
       /\ escalationRequests[requestId].justification \in Justifications["rejected"]

\* C35: a step that creates or resolves an EscalationRequest (by the timer or
\* by a manual decision, approved or rejected) changes no AccessRequest of the
\* ledger and no stored RequestState.
C35_EscalationLeavesLedgerAndStates ==
  [][(escalationRequests' # escalationRequests \/ escalationTimers' # escalationTimers)
       => (accessRequests' = accessRequests /\ requestStates' = requestStates)]_vars

\* An approved escalation of a requester whose AccessRequest is still pending
\* and whose state still awaits approval.
C35_Witness ==
  /\ \E id \in DOMAIN escalationRequests :
       /\ escalationRequests[id].status = "approved"
       /\ escalationRequests[id].userId = selectedUserId
  /\ \E id \in DOMAIN accessRequests :
       /\ accessRequests[id].status = "pending"
       /\ accessRequests[id].userId = selectedUserId
  /\ selectedUserId \in DOMAIN requestStates
  /\ requestStates[selectedUserId].status = "AWAITING_APPROVAL"

\* The AccessRequest created when the requester's current RequestState was
\* finalized: the newest request filed for the requester (0 when there is none).
OwnRequestOf(reqs, userId) ==
  LET ids == {id \in DOMAIN reqs : reqs[id].userId = userId}
  IN IF ids = {} THEN 0 ELSE CHOOSE id \in ids : \A other \in ids : other <= id

\* C36: a ledger decision marks a requester's RequestState APPROVED or
\* REJECTED only if the decided AccessRequest is the one created when that
\* state was finalized (a decision on an older pending request leaves the
\* state of a newer request alone), and after the decision no RequestState is
\* APPROVED while its own AccessRequest is pending or rejected.
C36_DecisionMarksOwnStateOnly ==
  [][(Len(accessRequests') = Len(accessRequests) /\ accessRequests' # accessRequests) =>
       \A id \in DOMAIN accessRequests :
         accessRequests'[id].status # accessRequests[id].status =>
           LET userId == accessRequests[id].userId
           IN (userId \in DOMAIN requestStates /\ requestStates'[userId] # requestStates[userId]) =>
                /\ id = OwnRequestOf(accessRequests, userId)
                /\ requestStates'[userId].status = "APPROVED" =>
                     accessRequests'[OwnRequestOf(accessRequests, userId)].status = "approved"]_vars

\* C37: a pending request is decided by an actor without override authority
\* only if that actor is the request's primary approver: whoever approves or
\* rejects it is the IT Administrator or has the id in assignedApproverId.
C37_OnlyPrimaryApproverOrOverride ==
  [][(Len(accessRequests') = Len(accessRequests) /\ accessRequests' # accessRequests) =>
       \A id \in DOMAIN accessRequests :
         (accessRequests[id].status = "pending" /\ accessRequests'[id].status # "pending") =>
           \/ accessRequests'[id].approverRole = "IT Administrator"
           \/ accessRequests'[id].approverId = accessRequests[id].assignedApproverId]_vars

\* C38: a stored RequestState with status AWAITING_APPROVAL has no missing
\* fields, and its system, accessLevel, project and targetEmployeeId are those
\* of the AccessRequest created at its finalization: chat messages received
\* while awaiting a decision do not alter them.
C38_AwaitingStateMatchesRequest ==
  \A userId \in DOMAIN requestStates :
    requestStates[userId].status = "AWAITING_APPROVAL" =>
      LET state == requestStates[userId]
          own == OwnRequestOf(accessRequests, userId)
      IN /\ state.missingFields = <<>>
         /\ own # 0
         /\ state.system = accessRequests[own].system
         /\ state.accessLevel = accessRequests[own].accessLevel
         /\ state.project = accessRequests[own].project
         /\ state.targetEmployeeId = accessRequests[own].targetEmployeeId

\* C39: in every ledger state a pending AccessRequest has requiresApproval
\* true; a request with requiresApproval false is created approved, and no
\* later step makes it pending or rejected.
C39_PendingOnlyIfApprovalRequired ==
  [][accessRequests' # accessRequests =>
       \A id \in DOMAIN accessRequests' :
         /\ accessRequests'[id].status = "pending" => accessRequests'[id].requiresApproval
         /\ ~accessRequests'[id].requiresApproval => accessRequests'[id].status = "approved"
         /\ (id \in DOMAIN accessRequests /\ ~accessRequests[id].requiresApproval) =>
              ~accessRequests'[id].requiresApproval]_vars

\* A request filed without need of approval, still approved and undecided
\* after another request of the ledger has been rejected.
C39_Witness ==
  \E id, other \in DOMAIN accessRequests :
    /\ ~accessRequests[id].requiresApproval
    /\ accessRequests[id].status = "approved"
    /\ accessRequests[id].approverId = U
    /\ accessRequests[other].requiresApproval
    /\ accessRequests[other].status = "rejected"

\* A status change validateStateTransition permits, or no change.
PermittedChange(fromStatus, toStatus) ==
  fromStatus = toStatus \/ validateStateTransition(fromStatus, toStatus)

\* The intents for which the step taken is a step of the chat's update handler.
ChatIntentsOfStep == { i \in Intents : handleRequestStateUpdate(selectedUserId, i) }

\* The status updateRequestState stores in the update handler, before the
\* auto-submission, for the parsed intent.
StatusAfterUpdate(intent) ==
  LET loaded == StateBeforeUpdate
      state == IF loaded.status \in {"APPROVED", "REJECTED"}
               THEN createInitialRequestState(selectedUserId, users[selectedUserId].role)
               ELSE loaded
  IN updateRequestState(state, UpdatesOf(intent)).status

\* C40: every status change applied to a stored RequestState is one that
\* validateStateTransition permits. A recovery, a rejection, a reset and a
\* ledger write-back store one state; the update handler stores the updated
\* state (after a reset to DRAFT when it starts a new request) and then the
\* finalized one, and each of these changes is checked.
C40_StatusChangesPermitted ==
  [][requestStates' # requestStates =>
       \A userId \in DOMAIN requestStates' :
         LET fromStatus == IF userId \in DOMAIN requestStates
                           THEN requestStates[userId].status ELSE "DRAFT"
             toStatus == requestStates'[userId].status
         IN IF userId = selectedUserId /\ ChatIntentsOfStep # {}
            THEN \A i \in ChatIntentsOfStep :
                   LET terminal == StateBeforeUpdate.status \in {"APPROVED", "REJECTED"}
                   IN IF terminal /\ i.system = U
                      THEN PermittedChange(fromStatus, toStatus)
                      ELSE /\ PermittedChange(IF terminal THEN "DRAFT" ELSE fromStatus,
                                              StatusAfterUpdate(i))
                           /\ PermittedChange(StatusAfterUpdate(i), toStatus)
            ELSE PermittedChange(fromStatus, toStatus)]_vars

====
